---- MODULE Spec2Model ----
(***************************************************************************)
(* esp_bus: an in-process, name-addressed message bus (tuanpmt/esp_bus).   *)
(* The model follows src/src/esp_bus.c, esp_bus_msg.c and esp_bus_svc.c.   *)
(* Strings are sequences of one-character strings, so that strncpy's       *)
(* truncation, strchr and the glob matcher work on them as the C code      *)
(* works on char arrays.                                                   *)
(***************************************************************************)
EXTENDS Integers, Sequences, FiniteSets, TLC

VARIABLES
    initialized,        \* g_bus.initialized
    strict,             \* g_bus.strict
    on_err,             \* g_bus.on_err
    task,               \* g_bus.task: the worker's task handle
    mutex,              \* g_bus.mutex: whether it is created, and the task that holds it
    modules,            \* g_bus.modules: SLIST, head first
    subs,               \* g_bus.subs
    routes,             \* g_bus.routes
    services,           \* g_bus.services
    next_sub_id,        \* g_bus.next_sub_id
    next_svc_id,        \* g_bus.next_svc_id
    queue,              \* g_bus.queue: the envelopes in flight, oldest first
    wpc,                \* bus_task: the worker's position
    wmsg,               \* bus_task: the local message_t msg
    werr,               \* process_message: the local esp_err_t err
    last_service_tick,  \* bus_task: the local last_service_tick
    now,                \* the clock, in ms (esp_timer_get_time() / 1000 and the tick count)
    cpc,                \* per client thread: its position inside esp_bus_req
    frame,              \* per client thread: the locals and buffers of its esp_bus_req call
    ncalls,             \* ghost, per client thread: how many calls it has started
    inv,                \* ghost, per call: the handler invocations for its envelope, how it returned
    fin,                \* ghost, per client thread: its last completed call
    hlog,               \* ghost: the callback invocations, in order
    nlog,               \* ghost: the esp_bus_req calls made by callbacks, in order
    errlog,             \* ghost: the calls of the error callback
    stale,              \* ghost: worker accesses to memory of a call that has returned
    last,               \* ghost: the most recent atomic public call and its result
    heap,               \* ghost: the outstanding allocations of the bus (calloc/malloc minus free)
    sweep               \* esp_bus_run_services taken step by step: the loop's s, tmp and now

busVars == <<initialized, strict, on_err, task, mutex>>
regVars == <<modules, subs, routes, services, next_sub_id, next_svc_id>>
workerVars == <<wpc, wmsg, werr, last_service_tick>>
clientVars == <<cpc, frame, ncalls, inv, fin>>
logVars == <<hlog, nlog, errlog, stale>>
memVars == <<heap, sweep>>
vars == <<initialized, strict, on_err, task, mutex, modules, subs, routes, services,
          next_sub_id, next_svc_id, queue, wpc, wmsg, werr, last_service_tick,
          now, cpc, frame, ncalls, inv, fin, hlog, nlog, errlog, stale, last,
          heap, sweep>>

(***************************************************************************)
(* Program constants.                                                      *)
(***************************************************************************)
ESP_BUS_NAME_MAX == 16
ESP_BUS_PATTERN_MAX == 32

NULL == "NULL"
NUL == "\\0"
ESP_OK == "ESP_OK"
ESP_ERR_NO_MEM == "ESP_ERR_NO_MEM"
ESP_ERR_INVALID_ARG == "ESP_ERR_INVALID_ARG"
ESP_ERR_INVALID_STATE == "ESP_ERR_INVALID_STATE"
ESP_ERR_NOT_FOUND == "ESP_ERR_NOT_FOUND"
ESP_ERR_NOT_SUPPORTED == "ESP_ERR_NOT_SUPPORTED"
ESP_ERR_TIMEOUT == "ESP_ERR_TIMEOUT"

(***************************************************************************)
(* Model bounds.                                                           *)
(***************************************************************************)
\* calloc fails (returns NULL) once a registry holds this many nodes
MaxNodes == 2
\* the queue capacity (CONFIG_ESP_BUS_QUEUE_SIZE, 16 by default)
BUS_QUEUE_SIZE == 2
\* how many esp_bus_req calls one client thread makes
MaxCalls == 2
\* how many subscription ids and timer ids are handed out
MaxIds == 2
\* the clock stops here
MaxTime == 3
\* the longest pattern and target the matcher is compared on
MaxLen == 3

Threads == {"t1", "t2"}

(***************************************************************************)
(* C string helpers.                                                       *)
(***************************************************************************)
Min(a, b) == IF a < b THEN a ELSE b

\* n copies of character c
Rep(c, n) == [i \in 1..n |-> c]

\* strncpy(dst, s, n) into a zero-filled buffer of more than n bytes: the
\* first n characters of s, NUL-terminated by the buffer's zeroes
strncpy(s, n) == SubSeq(s, 1, Min(Len(s), n))

\* strchr(s, c): the index of the first c in s, 0 when there is none
strchr(s, c) ==
    IF \E i \in 1..Len(s) : s[i] = c
    THEN CHOOSE i \in 1..Len(s) : s[i] = c /\ \A j \in 1..(i - 1) : s[j] # c
    ELSE 0

\* esp_bus_parse_pattern: split at the first '.', else at the first ':'
esp_bus_parse_pattern(pattern) ==
    LET dot == strchr(pattern, ".")
        colon == strchr(pattern, ":")
        split(at, sep) ==
            IF at - 1 >= ESP_BUS_NAME_MAX
            THEN [ok |-> FALSE, module |-> <<>>, action |-> <<>>, sep |-> NUL]
            ELSE [ok |-> TRUE,
                  module |-> SubSeq(pattern, 1, at - 1),
                  action |-> strncpy(SubSeq(pattern, at + 1, Len(pattern)),
                                     ESP_BUS_NAME_MAX - 1),
                  sep |-> sep]
    IN  IF dot # 0 THEN split(dot, ".")
        ELSE IF colon # 0 THEN split(colon, ":")
        ELSE [ok |-> TRUE, module |-> strncpy(pattern, ESP_BUS_NAME_MAX - 1),
              action |-> <<>>, sep |-> NUL]

(***************************************************************************)
(* The registries (SLIST, head first).                                     *)
(***************************************************************************)
SLIST_INSERT_HEAD(list, node) == <<node>> \o list

\* SLIST_REMOVE of the node at position i
SLIST_REMOVE_none(list, i) == list

SLIST_REMOVE(list, i) == SubSeq(list, 1, i - 1) \o SubSeq(list, i + 1, Len(list))

\* esp_bus_find_module: the position of the first node whose stored name
\* equals name (strcmp), 0 for NULL
esp_bus_find_module(mods, name) ==
    IF \E i \in 1..Len(mods) : mods[i].name = name
    THEN CHOOSE i \in 1..Len(mods) :
            mods[i].name = name /\ \A j \in 1..(i - 1) : mods[j].name # name
    ELSE 0

\* esp_bus_exists (the query takes the mutex around the scan)
esp_bus_exists(name) ==
    initialized /\ esp_bus_find_module(modules, name) # 0

\* the node esp_bus_reg builds: the name is copied with strncpy into a
\* calloc'ed node, the handlers and the context are copied as given
module_node(m) ==
    [name |-> strncpy(m.name, ESP_BUS_NAME_MAX - 1),
     on_req |-> m.on_req, on_evt |-> m.on_evt, ctx |-> m.ctx]

\* a variant of reg_result without the check for an already registered name
reg_result_unchecked(m) ==
    IF ~initialized THEN [ret |-> ESP_ERR_INVALID_ARG, mods |-> modules]
    ELSE IF Len(modules) >= MaxNodes
         THEN [ret |-> ESP_ERR_NO_MEM, mods |-> modules]
    ELSE [ret |-> ESP_OK, mods |-> SLIST_INSERT_HEAD(modules, module_node(m))]

\* the result and the registry after esp_bus_reg(m)
reg_result(m) ==
    IF ~initialized THEN [ret |-> ESP_ERR_INVALID_ARG, mods |-> modules]
    ELSE IF esp_bus_find_module(modules, m.name) # 0
         THEN [ret |-> ESP_ERR_INVALID_STATE, mods |-> modules]
    ELSE IF Len(modules) >= MaxNodes
         THEN [ret |-> ESP_ERR_NO_MEM, mods |-> modules]
    ELSE [ret |-> ESP_OK, mods |-> SLIST_INSERT_HEAD(modules, module_node(m))]

unreg_result_unguarded(name) ==
    IF esp_bus_find_module(modules, name) = 0
    THEN [ret |-> ESP_ERR_NOT_FOUND, mods |-> modules]
    ELSE [ret |-> ESP_OK,
          mods |-> SLIST_REMOVE(modules, esp_bus_find_module(modules, name))]

\* the result and the registry after esp_bus_unreg(name)
unreg_result(name) ==
    IF ~initialized THEN [ret |-> ESP_ERR_INVALID_ARG, mods |-> modules]
    ELSE IF esp_bus_find_module(modules, name) = 0
         THEN [ret |-> ESP_ERR_NOT_FOUND, mods |-> modules]
    ELSE [ret |-> ESP_OK,
          mods |-> SLIST_REMOVE(modules, esp_bus_find_module(modules, name))]

(***************************************************************************)
(* What a callback running on some task can read and change: the           *)
(* registries, the queue and the logs.                                     *)
(***************************************************************************)
World ==
    [modules |-> modules, subs |-> subs, routes |-> routes, services |-> services,
     next_sub_id |-> next_sub_id, next_svc_id |-> next_svc_id,
     queue |-> queue, hlog |-> hlog, nlog |-> nlog, errlog |-> errlog,
     heap |-> heap]

\* the state after a step that ran callbacks and ended in world w
SetWorld(w) ==
    /\ modules' = w.modules
    /\ subs' = w.subs
    /\ routes' = w.routes
    /\ services' = w.services
    /\ next_sub_id' = w.next_sub_id
    /\ next_svc_id' = w.next_svc_id
    /\ queue' = w.queue
    /\ hlog' = w.hlog
    /\ nlog' = w.nlog
    /\ errlog' = w.errlog
    /\ heap' = w.heap

\* a variant of esp_bus_report_error that only logs the warning
esp_bus_report_error_log_only(w, pattern, err) == w

\* esp_bus_report_error: the warning is logged, and the error callback, if
\* one is set, is called with the pattern and the error
esp_bus_report_error(w, pattern, err) ==
    IF on_err # NULL
    THEN [w EXCEPT !.errlog = Append(@, [pattern |-> pattern, err |-> err])]
    ELSE w

\* a variant of IsWorker that never recognises the worker
IsWorker_never(self) == FALSE

\* xTaskGetCurrentTaskHandle() == g_bus.task
IsWorker(self) == self = task

\* a response that leaves the caller's buffer alone
NoOutput == [wrote |-> FALSE, buf |-> <<>>, len |-> 0]

\* the envelope esp_bus_req builds for a call c: the pattern is copied with
\* strncpy, the payload is copied when req is not NULL and req_len > 0
req_message(c, from) ==
    [type |-> "MSG_REQ",
     pattern |-> strncpy(c.pattern, ESP_BUS_PATTERN_MAX - 1),
     data |-> IF c.req.ptr /\ Len(c.req.bytes) > 0
              THEN c.req ELSE [ptr |-> FALSE, bytes |-> <<>>],
     res |-> c.res,
     from |-> from,
     result |-> c.timeout > 0,
     done |-> c.timeout > 0]

\* a variant of module_not_found that ignores strict mode
module_not_found_lax(w, pattern) ==
    [w |-> w, err |-> ESP_OK, out |-> NoOutput]

\* esp_bus_process_request, if (!mod): a failure in strict mode, else a
\* silent success
module_not_found(w, pattern) ==
    IF strict
    THEN [w |-> esp_bus_report_error(w, pattern, ESP_ERR_NOT_FOUND),
          err |-> ESP_ERR_NOT_FOUND, out |-> NoOutput]
    ELSE [w |-> w, err |-> ESP_OK, out |-> NoOutput]

a_echo == <<"e", "c", "h", "o">>
a_fail == <<"f", "a", "i", "l">>

\* position of the first node with this id in a registry, 0 when none
find_id(list, id) ==
    IF \E i \in 1..Len(list) : list[i].id = id
    THEN CHOOSE i \in 1..Len(list) : list[i].id = id /\ \A j \in 1..(i - 1) : list[j].id # id
    ELSE 0

\* ghost: the esp_bus_off call, if that is the configuration call that
\* returned last
last_off == IF last.op = "off" THEN last ELSE [op |-> "other"]

\* snprintf(buf, ESP_BUS_PATTERN_MAX, "%s:%s", src, evt)
event_key(src, evt) == strncpy(src \o <<":">> \o evt, ESP_BUS_PATTERN_MAX - 1)

\* a variant of esp_bus_emit_cb that puts the envelope in front of the queue
esp_bus_emit_cb_front(w, e) ==
    IF initialized /\ Len(w.queue) < BUS_QUEUE_SIZE
    THEN [w EXCEPT !.queue =
             <<[type |-> "MSG_EVT", pattern |-> event_key(e[1], e[2]),
                data |-> [ptr |-> FALSE, bytes |-> <<>>],
                seen |-> last_off,
                gone |-> {id \in 0..(w.next_sub_id - 1) :
                             find_id(w.subs, id) = 0}]>> \o @]
    ELSE w

\* esp_bus_emit(e[1], e[2], NULL, 0) called by a callback: the envelope is
\* sent with xQueueSend(g_bus.queue, &msg, 0), whatever the task
esp_bus_emit_cb(w, e) ==
    IF initialized /\ Len(w.queue) < BUS_QUEUE_SIZE
    THEN [w EXCEPT !.queue =
             Append(@, [type |-> "MSG_EVT", pattern |-> event_key(e[1], e[2]),
                        data |-> [ptr |-> FALSE, bytes |-> <<>>],
                        seen |-> last_off,
                        gone |-> {id \in 0..(w.next_sub_id - 1) :
                                     find_id(w.subs, id) = 0}])]
    ELSE w

RECURSIVE esp_bus_process_request(_, _, _, _, _)
RECURSIVE on_req(_, _, _, _, _, _)
RECURSIVE esp_bus_req_cb(_, _, _, _)

\* test_req_handler of the test suite: "echo" copies min(req_len, res_size)
\* bytes into the response buffer, "fail" fails, any other action succeeds
test_req_handler(w, action, req, res) ==
    IF action = a_echo /\ req.ptr /\ res.ptr
    THEN LET copy_len == Min(Len(req.bytes), res.size)
         IN  [w |-> w, err |-> ESP_OK,
              out |-> [wrote |-> TRUE, buf |-> SubSeq(req.bytes, 1, copy_len),
                       len |-> IF res.has_len THEN copy_len ELSE 0]]
    ELSE IF action = a_fail
    THEN [w |-> w, err |-> ESP_ERR_INVALID_STATE, out |-> NoOutput]
    ELSE [w |-> w, err |-> ESP_OK, out |-> NoOutput]

\* a request handler that, running on the task self, issues the request its
\* context names with esp_bus_req and returns that call's result
caller_req_handler(w, self, ctx) ==
    LET r == esp_bus_req_cb(w, self, ctx, "on_req")
    IN  [w |-> r.w, err |-> r.err, out |-> NoOutput]

\* mod->on_req(action, req, req_len, res, res_size, res_len, mod->ctx);
\* emitting_req_handler emits the event its context names and succeeds
on_req(w, self, node, action, req, res) ==
    IF node.on_req = "test_req_handler"
    THEN test_req_handler(w, action, req, res)
    ELSE IF node.on_req = "emitting_req_handler"
    THEN [w |-> esp_bus_emit_cb(w, node.ctx), err |-> ESP_OK, out |-> NoOutput]
    ELSE caller_req_handler(w, self, node.ctx)

\* esp_bus_process_request on the task self
esp_bus_process_request(w, self, pattern, req, res) ==
    LET p == esp_bus_parse_pattern(pattern)
        i == esp_bus_find_module(w.modules, p.module)
    IN  IF ~p.ok \/ p.sep # "."
        THEN [w |-> esp_bus_report_error(w, pattern, ESP_ERR_INVALID_ARG),
              err |-> ESP_ERR_INVALID_ARG, out |-> NoOutput]
        ELSE IF i = 0
        THEN module_not_found(w, pattern)
        ELSE IF w.modules[i].on_req = NULL
        THEN [w |-> esp_bus_report_error(w, pattern, ESP_ERR_NOT_SUPPORTED),
              err |-> ESP_ERR_NOT_SUPPORTED, out |-> NoOutput]
        ELSE LET h == on_req(w, self, w.modules[i], p.action, req, res)
             IN  [w |-> [h.w EXCEPT !.hlog =
                            Append(@, [fn |-> w.modules[i].on_req,
                                       mod |-> w.modules[i].name,
                                       action |-> p.action, req |-> req,
                                       err |-> h.err, out |-> h.out])],
                  err |-> h.err, out |-> h.out]

\* a whole esp_bus_req(c.pattern, ..., c.timeout) call made by a callback
\* (kind by) that runs on the task self.  On the worker the request is
\* processed directly.  On any other task it goes through the queue: a
\* callback cannot be resumed later, so the blocking branch is followed to
\* its end, where the wait for the worker has expired.
esp_bus_req_cb(w, self, c, by) ==
    LET rec(r, enq, waited) ==
            [by |-> by, pattern |-> c.pattern, timeout |-> c.timeout,
             full |-> Len(w.queue) >= BUS_QUEUE_SIZE, err |-> r.err,
             enq |-> enq, waited |-> waited,
             queued |-> Len(r.w.queue) - Len(w.queue),
             ninv |-> Len(r.w.hlog) - Len(w.hlog)]
        done(r, enq, waited) ==
            [w |-> [r.w EXCEPT !.nlog = Append(@, rec(r, enq, waited))],
             err |-> r.err, out |-> r.out]
    IN  IF ~initialized
        THEN done([w |-> w, err |-> ESP_ERR_INVALID_ARG, out |-> NoOutput],
                  FALSE, FALSE)
        ELSE IF IsWorker(self)
        THEN done(esp_bus_process_request(w, self, c.pattern, c.req, c.res),
                  FALSE, FALSE)
        ELSE IF Len(w.queue) >= BUS_QUEUE_SIZE
        THEN done([w |-> w, err |-> ESP_ERR_TIMEOUT, out |-> NoOutput],
                  FALSE, c.timeout > 0)
        ELSE done([w |-> [w EXCEPT !.queue =
                              Append(@, req_message(c, <<self, 0>>))],
                   err |-> IF c.timeout > 0 THEN ESP_ERR_TIMEOUT ELSE ESP_OK,
                   out |-> NoOutput],
                  TRUE, c.timeout > 0)

(***************************************************************************)
(* Events: subscriptions, routes and the dispatch on the worker.           *)
(***************************************************************************)
RECURSIVE match_greedy(_, _)
\* a variant of esp_bus_match_pattern in which a '*' accepts the rest of the
\* target without looking at the rest of the pattern
match_greedy(pattern, target) ==
    IF pattern # <<>> /\ target # <<>>
    THEN IF Head(pattern) = "*"
         THEN TRUE
         ELSE IF Head(pattern) # Head(target)
              THEN FALSE
              ELSE match_greedy(Tail(pattern), Tail(target))
    ELSE /\ \A i \in 1..Len(pattern) : pattern[i] = "*"
         /\ target = <<>>

RECURSIVE esp_bus_match_pattern(_, _)
\* esp_bus_match_pattern: '*' matches any run of characters, every other
\* character matches itself, the whole target must be used up
esp_bus_match_pattern(pattern, target) ==
    IF pattern # <<>> /\ target # <<>>
    THEN IF Head(pattern) = "*"
         THEN IF Tail(pattern) = <<>>
              THEN TRUE
              ELSE \E i \in 1..Len(target) :
                       esp_bus_match_pattern(Tail(pattern), SubSeq(target, i, Len(target)))
         ELSE IF Head(pattern) # Head(target)
              THEN FALSE
              ELSE esp_bus_match_pattern(Tail(pattern), Tail(target))
    ELSE /\ \A i \in 1..Len(pattern) : pattern[i] = "*"
         /\ target = <<>>

\* esp_bus_now_us(), with the clock kept in ms
esp_bus_now_us == now * 1000

\* a variant of trigger_result that sends nothing
trigger_result_none(q) == q

\* esp_bus_trigger: xQueueSend of a MSG_TRIGGER without waiting
trigger_result(q) ==
    IF initialized /\ Len(q) < BUS_QUEUE_SIZE
    THEN Append(q, [type |-> "MSG_TRIGGER"])
    ELSE q

\* a callback that calls one configuration operation of the bus, the one its
\* context names: the operation takes the mutex, edits the registry and gives
\* the mutex back before it returns to the callback
editing_cb(w, op) ==
    CASE op = "reg" ->
           IF esp_bus_find_module(w.modules, <<"a">>) # 0 \/ Len(w.modules) >= MaxNodes
           THEN w
           ELSE [w EXCEPT !.modules = SLIST_INSERT_HEAD(@,
                                          module_node([name |-> <<"a">>, on_req |-> NULL,
                                                       on_evt |-> NULL,
                                                       ctx |-> [ptr |-> FALSE,
                                                                bytes |-> <<>>]])),
                          !.heap.node = @ + 1]
      [] op = "unreg" ->
           IF esp_bus_find_module(w.modules, <<"m">>) = 0
           THEN w
           ELSE [w EXCEPT !.modules = SLIST_REMOVE(@, esp_bus_find_module(@, <<"m">>)),
                          !.heap.node = @ - 1]
      [] op = "sub" ->
           IF Len(w.subs) >= MaxNodes
           THEN w
           ELSE [w EXCEPT !.subs = SLIST_INSERT_HEAD(@,
                                       [id |-> w.next_sub_id,
                                        pattern |-> <<"y", "1", ":", "*">>,
                                        handler |-> "test_evt_handler",
                                        ctx |-> [ptr |-> FALSE, bytes |-> <<>>]]),
                          !.next_sub_id = @ + 1,
                          !.heap.node = @ + 1]
      [] op = "unsub" ->
           IF find_id(w.subs, 1) = 0
           THEN w
           ELSE [w EXCEPT !.subs = SLIST_REMOVE(@, find_id(@, 1)),
                          !.heap.node = @ - 1]
      [] op = "on" ->
           IF Len(w.routes) >= MaxNodes
           THEN w
           ELSE [w EXCEPT !.routes = SLIST_INSERT_HEAD(@,
                                         [evt_pattern |-> <<"y", "1", ":", "*">>,
                                          req_pattern |-> <<"m", ".", "e", "c", "h", "o">>,
                                          req_data |-> [ptr |-> FALSE, bytes |-> <<>>],
                                          transform |-> NULL, ctx |-> NULL]),
                          !.heap.node = @ + 1]
      [] op = "off" ->
           LET left == SelectSeq(w.routes,
                                 LAMBDA r : r.evt_pattern # <<"y", "1", ":", "*">>)
           IN  [w EXCEPT !.routes = left,
                         !.heap.node = @ - (Len(w.routes) - Len(left)),
                         !.heap.payload = @ - (Len(SelectSeq(w.routes,
                                                      LAMBDA r : r.req_data.ptr))
                                               - Len(SelectSeq(left,
                                                         LAMBDA r : r.req_data.ptr)))]
      [] op \in {"tick", "after"} ->
           IF Len(w.services) >= MaxNodes
           THEN w
           ELSE [w EXCEPT !.services = SLIST_INSERT_HEAD(@,
                                           [id |-> w.next_svc_id, fn |-> "test_svc_handler",
                                            ctx |-> NULL, interval_ms |-> 1,
                                            next_run_us |-> esp_bus_now_us + 1000,
                                            repeat |-> op = "tick"]),
                          !.next_svc_id = @ + 1,
                          !.heap.node = @ + 1,
                          !.queue = trigger_result(@)]
      [] op = "cancel" ->
           IF find_id(w.services, 0) = 0
           THEN w
           ELSE [w EXCEPT !.services = SLIST_REMOVE(@, find_id(@, 0)),
                          !.heap.node = @ - 1]
      [] OTHER -> w

\* sub->handler(evt, data, len, sub->ctx): test_evt_handler of the test suite
\* only counts its calls; caller_evt_handler issues the request its context
\* names with esp_bus_req; editing_evt_handler calls the configuration
\* operation its context names; emitting_evt_handler emits the event its
\* context names
evt_handler(w, self, sub, full, evt, data) ==
    LET w1 == IF sub.handler = "caller_evt_handler"
              THEN esp_bus_req_cb(w, self, sub.ctx, "sub").w
              ELSE IF sub.handler = "editing_evt_handler"
              THEN editing_cb(w, sub.ctx)
              ELSE IF sub.handler = "emitting_evt_handler"
              THEN esp_bus_emit_cb(w, sub.ctx)
              ELSE w
    IN  [w1 EXCEPT !.hlog = Append(@, [fn |-> sub.handler, id |-> sub.id,
                                       key |-> full, evt |-> evt, data |-> data])]

\* r->transform(evt, data, len, &out_req, &out_data, &out_len, r->ctx):
\* caller_transform issues the request its context names with esp_bus_req
\* and leaves out_req NULL
transform(w, self, r, evt, data) ==
    LET w1 == IF r.transform = "emitting_transform"
              THEN esp_bus_emit_cb(w, r.ctx)
              ELSE esp_bus_req_cb(w, self, r.ctx, "transform").w
    IN  [w |-> [w1 EXCEPT !.hlog = Append(@, [fn |-> r.transform, evt |-> evt,
                                             data |-> data])],
         out_req |-> [ptr |-> FALSE, str |-> <<>>],
         out_data |-> [ptr |-> FALSE, bytes |-> <<>>]]

\* the response arguments of a routed request: NULL, 0, NULL
NoResponse == [ptr |-> FALSE, size |-> 0, has_len |-> FALSE]

RECURSIVE dispatch_subs(_, _, _, _, _, _)
\* the first loop of esp_bus_dispatch_event, from position i on
dispatch_subs(w, self, full, evt, data, i) ==
    IF i > Len(w.subs) THEN w
    ELSE IF esp_bus_match_pattern(w.subs[i].pattern, full)
    THEN dispatch_subs(evt_handler(w, self, w.subs[i], full, evt, data),
                       self, full, evt, data, i + 1)
    ELSE dispatch_subs(w, self, full, evt, data, i + 1)

RECURSIVE dispatch_routes(_, _, _, _, _, _)
\* the second loop of esp_bus_dispatch_event, from position i on
dispatch_routes(w, self, full, evt, data, i) ==
    IF i > Len(w.routes) THEN w
    ELSE LET r == w.routes[i]
         IN  IF ~esp_bus_match_pattern(r.evt_pattern, full)
             THEN dispatch_routes(w, self, full, evt, data, i + 1)
             ELSE IF r.transform # NULL
             THEN LET x == transform(w, self, r, evt, data)
                      w1 == IF x.out_req.ptr
                            THEN esp_bus_process_request(x.w, self, x.out_req.str,
                                                         x.out_data, NoResponse).w
                            ELSE x.w
                  IN  dispatch_routes(w1, self, full, evt, data, i + 1)
             ELSE dispatch_routes(
                      esp_bus_process_request(w, self, r.req_pattern, r.req_data,
                                              NoResponse).w,
                      self, full, evt, data, i + 1)

\* a variant of esp_bus_dispatch_event that also calls the on_evt handler of
\* the module that is the event's source
esp_bus_dispatch_event_on_evt(w, self, src, evt, data) ==
    LET full == event_key(src, evt)
        w1 == dispatch_subs(w, self, full, evt, data, 1)
        w2 == dispatch_routes(w1, self, full, evt, data, 1)
        i == esp_bus_find_module(w2.modules, src)
    IN  IF i # 0 /\ w2.modules[i].on_evt # NULL
        THEN [w2 EXCEPT !.hlog = Append(@, [fn |-> w2.modules[i].on_evt, id |-> -1,
                                            key |-> full, evt |-> evt, data |-> data])]
        ELSE w2

\* esp_bus_dispatch_event(src, evt, data, len) on the task self
esp_bus_dispatch_event(w, self, src, evt, data) ==
    LET full == event_key(src, evt)
        w1 == dispatch_subs(w, self, full, evt, data, 1)
    IN  dispatch_routes(w1, self, full, evt, data, 1)

(***************************************************************************)
(* Inputs.                                                                 *)
(***************************************************************************)
s_a == <<"a">>
s_m == <<"m">>
s_f == <<"f">>
\* the longest name that is stored intact, and two names that esp_bus_reg
\* truncates to it
s_fit == Rep("a", ESP_BUS_NAME_MAX - 1)
s_long1 == Rep("a", ESP_BUS_NAME_MAX)
s_long2 == Rep("a", ESP_BUS_NAME_MAX - 1) \o <<"b">>

NoData == [ptr |-> FALSE, bytes |-> <<>>]
NoRes == [ptr |-> FALSE, size |-> 0, has_len |-> FALSE]
Buf4 == [ptr |-> TRUE, size |-> 4, has_len |-> TRUE]

\* esp_bus_req("m.echo", "hi", 2, buf, 4, &len, 1)
c_echo == [pattern |-> s_m \o <<".">> \o a_echo,
           req |-> [ptr |-> TRUE, bytes |-> <<"h", "i">>], res |-> Buf4, timeout |-> 1]
\* esp_bus_req("m.fail", NULL, 0, buf, 4, &len, 1)
c_fail == [pattern |-> s_m \o <<".">> \o a_fail, req |-> NoData, res |-> Buf4, timeout |-> 1]
\* esp_bus_call("m.fail")
c_call == [pattern |-> s_m \o <<".">> \o a_fail, req |-> NoData, res |-> NoRes, timeout |-> 0]
\* esp_bus_req("f.go", NULL, 0, NULL, 0, NULL, 1)
c_fwd == [pattern |-> s_f \o <<".", "g", "o">>, req |-> NoData, res |-> NoRes, timeout |-> 1]
\* esp_bus_req("u.go", NULL, 0, NULL, 0, NULL, 1): no module u is registered
c_unknown == [pattern |-> <<"u", ".", "g", "o">>, req |-> NoData, res |-> NoRes,
              timeout |-> 1]
\* the requests that the handler of module f issues from the worker
n_fail0 == c_call
n_fail1 == [c_call EXCEPT !.timeout = 1]

ReqCalls == {c_echo, c_fail, c_call}
m_test == [name |-> s_m, on_req |-> "test_req_handler", on_evt |-> NULL, ctx |-> NoData]
m_fwd(n) == [name |-> s_f, on_req |-> "caller_req_handler", on_evt |-> NULL, ctx |-> n]

RegNames == {s_a, s_fit, s_long1, s_long2}
RegModules ==
    {[name |-> n, on_req |-> h[1], on_evt |-> NULL, ctx |-> h[2]]
     : n \in RegNames, h \in {<<"test_req_handler", "ctx1">>, <<NULL, "ctx2">>}}

\* event sources, event names and patterns of the wildcard test
s_x1 == <<"x", "1">>
s_y1 == <<"y", "1">>
s_evt == <<"e", "v", "t">>
s_other == <<"o", "t", "h", "e", "r">>
p_x_evt == <<"x", "*", ":", "e", "v", "t">>
p_x1_any == <<"x", "1", ":", "*">>
p_m_echo == s_m \o <<".">> \o a_echo
p_m_fail == s_m \o <<".">> \o a_fail

Emits == {<<s_x1, s_evt>>, <<s_y1, s_evt>>, <<s_x1, s_other>>}
SubPatterns == {p_x_evt, p_x1_any}
\* esp_bus_on("x*:evt", "m.echo", "hi", 2) and esp_bus_on("x1:*", "m.fail", NULL, 0)
Routes == {[evt |-> p_x_evt, req |-> p_m_echo,
            data |-> [ptr |-> TRUE, bytes |-> <<"h", "i">>]],
           [evt |-> p_x1_any, req |-> p_m_fail, data |-> NoData]}

\* g_bus.mutex is NULL: no mutex has been created
NoMutex == [created |-> FALSE, holder |-> NULL]
\* nothing is allocated
NoHeap == [node |-> 0, payload |-> 0, sem |-> 0]
\* no due pass is under way
NoSweep == [phase |-> "none"]
\* if (p) free(p), counted
B2N(b) == IF b THEN 1 ELSE 0

(***************************************************************************)
(* Initial state: the zero-initialised global g_bus, no task running.      *)
(***************************************************************************)
Init ==
    /\ initialized = FALSE
    /\ strict = FALSE
    /\ on_err = NULL
    /\ task = NULL
    /\ mutex = NoMutex
    /\ modules = <<>>
    /\ subs = <<>>
    /\ routes = <<>>
    /\ services = <<>>
    /\ next_sub_id = 0
    /\ next_svc_id = 0
    /\ queue = <<>>
    /\ wpc = "none"
    /\ wmsg = [type |-> "none"]
    /\ werr = ESP_OK
    /\ last_service_tick = 0
    /\ now = 1
    /\ cpc = [t \in Threads |-> "idle"]
    /\ frame = [t \in Threads |-> [k |-> 0]]
    /\ ncalls = [t \in Threads |-> 0]
    /\ inv = [t \in Threads |-> [k \in 1..MaxCalls |-> [h |-> <<>>, how |-> "none"]]]
    /\ fin = [t \in Threads |-> [k |-> 0]]
    /\ hlog = <<>>
    /\ nlog = <<>>
    /\ errlog = <<>>
    /\ stale = {}
    /\ last = [op |-> "none"]
    /\ heap = NoHeap
    /\ sweep = NoSweep

already_initialized_never == FALSE

\* if (g_bus.initialized) return ESP_OK
already_initialized == initialized

(***************************************************************************)
(* Atomic public operations (registry edits are made under g_bus.mutex).   *)
(***************************************************************************)
\* esp_bus_init: a no-op when already initialised; else g_bus is zeroed, the
\* queue, the mutex and the task are created
esp_bus_init ==
    /\ IF already_initialized
       THEN UNCHANGED <<busVars, regVars, queue, workerVars>>
       ELSE /\ initialized' = TRUE
            /\ strict' = FALSE
            /\ on_err' = NULL
            /\ task' = "bus_task"
            /\ mutex' = [created |-> TRUE, holder |-> NULL]
            /\ modules' = <<>>
            /\ subs' = <<>>
            /\ routes' = <<>>
            /\ services' = <<>>
            /\ next_sub_id' = 0
            /\ next_svc_id' = 0
            /\ queue' = <<>>
            /\ wpc' = "idle"
            /\ wmsg' = [type |-> "none"]
            /\ werr' = ESP_OK
            /\ last_service_tick' = 0
    /\ last' = [op |-> "init", ret |-> ESP_OK]
    /\ UNCHANGED <<now, clientVars, logVars, memVars>>

\* esp_bus_deinit: the worker task is deleted wherever it is, every node
\* of the four registries is freed, a route's payload with it, and the
\* mutex and the queue are deleted; the queue's storage goes with it, not
\* what the envelopes in it point to
esp_bus_deinit ==
    /\ IF ~initialized
       THEN /\ last' = [op |-> "deinit", ret |-> ESP_ERR_INVALID_STATE]
            /\ UNCHANGED <<busVars, regVars, queue, workerVars, memVars>>
       ELSE /\ task' = NULL
            /\ mutex' = NoMutex
            /\ wpc' = "none"
            /\ modules' = <<>>
            /\ subs' = <<>>
            /\ routes' = <<>>
            /\ services' = <<>>
            /\ heap' = [heap EXCEPT
                           !.node = @ - (Len(modules) + Len(subs) + Len(routes)
                                         + Len(services)),
                           !.payload = @ - Len(SelectSeq(routes,
                                                   LAMBDA r : r.req_data.ptr))]
            /\ queue' = <<>>
            /\ initialized' = FALSE
            /\ last' = [op |-> "deinit", ret |-> ESP_OK]
            /\ UNCHANGED <<strict, on_err, next_sub_id, next_svc_id, wmsg, werr,
                           last_service_tick, sweep>>
    /\ UNCHANGED <<now, clientVars, logVars>>

esp_bus_reg(m) ==
    /\ modules' = reg_result(m).mods
    /\ heap' = [heap EXCEPT !.node = @ + B2N(reg_result(m).ret = ESP_OK)]
    /\ last' = [op |-> "reg", m |-> m, ret |-> reg_result(m).ret]
    /\ UNCHANGED <<busVars, subs, routes, services, next_sub_id, next_svc_id,
                   queue, workerVars, now, clientVars, logVars, sweep>>

esp_bus_unreg(name) ==
    /\ modules' = unreg_result(name).mods
    /\ heap' = [heap EXCEPT !.node = @ - B2N(unreg_result(name).ret = ESP_OK)]
    /\ last' = [op |-> "unreg", name |-> name, ret |-> unreg_result(name).ret]
    /\ UNCHANGED <<busVars, subs, routes, services, next_sub_id, next_svc_id,
                   queue, workerVars, now, clientVars, logVars, sweep>>

esp_bus_strict(enable) ==
    /\ strict' = enable
    /\ last' = [op |-> "strict", enable |-> enable, ret |-> ESP_OK]
    /\ UNCHANGED <<initialized, on_err, task, mutex, regVars, queue, workerVars, now,
                   clientVars, logVars, memVars>>

\* esp_bus_on_err(cb): the callback is stored, whatever the state of the bus
esp_bus_on_err(cb) ==
    /\ on_err' = cb
    /\ last' = [op |-> "on_err", ret |-> ESP_OK]
    /\ UNCHANGED <<initialized, strict, task, mutex, regVars, queue, workerVars, now,
                   clientVars, logVars, memVars>>

(***************************************************************************)
(* esp_bus_req on a client task (any task but the worker), step by step.   *)
(* frame[t] holds the call's locals (result, done) and the caller's        *)
(* response buffer and length; the envelope points at all four.            *)
(***************************************************************************)
\* the call's frame is still on the stack of t
Live(t, k) == cpc[t] # "idle" /\ frame[t].k = k

\* the module the call addresses is registered with a request handler
Addressed(c) ==
    LET p == esp_bus_parse_pattern(c.pattern)
        i == esp_bus_find_module(modules, p.module)
    IN  p.ok /\ p.sep = "." /\ i # 0 /\ modules[i].on_req # NULL

\* a variant of NewFrame that attaches the semaphore and the result slot
\* to every call, whatever its timeout
NewFrame_blocking(t, c, sem_ok) ==
    [k |-> ncalls[t] + 1, c |-> c, result |-> ESP_OK,
     sem |-> IF sem_ok THEN "empty" ELSE "none",
     buf |-> <<>>, len |-> 0, reg0 |-> Addressed(c), strict0 |-> strict,
     full0 |-> Len(queue) >= BUS_QUEUE_SIZE]

\* the locals of a new esp_bus_req call: result = ESP_OK, and done is a new
\* binary semaphore when timeout_ms > 0
NewFrame(t, c, sem_ok) ==
    [k |-> ncalls[t] + 1, c |-> c, result |-> ESP_OK,
     sem |-> IF c.timeout > 0 /\ sem_ok THEN "empty" ELSE "none",
     buf |-> <<>>, len |-> 0, reg0 |-> Addressed(c), strict0 |-> strict,
     full0 |-> Len(queue) >= BUS_QUEUE_SIZE]

\* esp_bus_req returns ret to t by the path how: the frame is popped
Finish(t, f, ret, how) ==
    /\ fin' = [fin EXCEPT ![t] =
                  [k |-> f.k, c |-> f.c, ret |-> ret, how |-> how,
                   buf |-> f.buf, len |-> f.len, reg0 |-> f.reg0,
                   strict0 |-> f.strict0, full0 |-> f.full0, invs |-> inv[t][f.k].h]]
    /\ inv' = [inv EXCEPT ![t][f.k].how = how]
    /\ frame' = [frame EXCEPT ![t] = [k |-> 0]]
    /\ cpc' = [cpc EXCEPT ![t] = "idle"]

\* the envelope of the call in frame f
frame_message(t, f) ==
    [req_message(f.c, <<t, f.k>>) EXCEPT !.done = f.sem # "none"]

\* esp_bus_req up to its first blocking point: the checks, the payload copy
\* (can_copy: malloc succeeds), the semaphore (sem_ok: xSemaphoreCreateBinary
\* succeeds; its result is not checked) and the first try of xQueueSend
R_Call(t, c, can_copy, sem_ok) ==
    /\ cpc[t] = "idle"
    /\ ncalls[t] < MaxCalls
    /\ ~IsWorker(t)
    /\ ncalls' = [ncalls EXCEPT ![t] = @ + 1]
    /\ LET f == NewFrame(t, c, sem_ok)
           got == [heap EXCEPT !.payload = @ + B2N(c.req.ptr /\ Len(c.req.bytes) > 0),
                               !.sem = @ + B2N(f.sem # "none")]
       IN  IF ~initialized
           THEN Finish(t, f, ESP_ERR_INVALID_ARG, "invalid_arg") /\ UNCHANGED <<queue, heap>>
           ELSE IF c.req.ptr /\ Len(c.req.bytes) > 0 /\ ~can_copy
           THEN Finish(t, f, ESP_ERR_NO_MEM, "no_mem") /\ UNCHANGED <<queue, heap>>
           ELSE IF Len(queue) >= BUS_QUEUE_SIZE
           THEN IF c.timeout = 0
                THEN Finish(t, f, ESP_ERR_TIMEOUT, "send_expired") /\ UNCHANGED <<queue, heap>>
                ELSE /\ frame' = [frame EXCEPT ![t] = f]
                     /\ cpc' = [cpc EXCEPT ![t] = "sendwait"]
                     /\ heap' = got
                     /\ UNCHANGED <<queue, fin, inv>>
           ELSE /\ queue' = Append(queue, frame_message(t, f))
                /\ frame' = [frame EXCEPT ![t] = f]
                /\ cpc' = [cpc EXCEPT ![t] = IF f.sem # "none" THEN "wait" ELSE "sent"]
                /\ heap' = got
                /\ UNCHANGED <<fin, inv>>
    /\ UNCHANGED <<busVars, regVars, workerVars, now, logVars, last, sweep>>

\* xQueueSend succeeds while the caller waits for room
R_SendOk(t) ==
    /\ cpc[t] = "sendwait"
    /\ Len(queue) < BUS_QUEUE_SIZE
    /\ queue' = Append(queue, frame_message(t, frame[t]))
    /\ cpc' = [cpc EXCEPT ![t] = IF frame[t].sem # "none" THEN "wait" ELSE "sent"]
    /\ UNCHANGED <<frame, fin, inv>>
    /\ UNCHANGED <<busVars, regVars, workerVars, now, ncalls, logVars, last,
                   memVars>>

\* xQueueSend gives up: the queue stayed full for the whole timeout
R_SendTimeout(t) ==
    /\ cpc[t] = "sendwait"
    /\ Len(queue) >= BUS_QUEUE_SIZE
    /\ Finish(t, frame[t], ESP_ERR_TIMEOUT, "send_expired")
    /\ heap' = [heap EXCEPT !.payload = @ - B2N(frame[t].c.req.ptr
                                                /\ Len(frame[t].c.req.bytes) > 0),
                            !.sem = @ - B2N(frame[t].sem # "none")]
    /\ UNCHANGED <<busVars, regVars, queue, workerVars, now, ncalls, logVars, last,
                   sweep>>

\* xSemaphoreTake(done, timeout) succeeds
R_Take(t) ==
    /\ cpc[t] = "wait"
    /\ frame[t].sem = "given"
    /\ frame' = [frame EXCEPT ![t].sem = "empty"]
    /\ cpc' = [cpc EXCEPT ![t] = "taken"]
    /\ UNCHANGED <<busVars, regVars, queue, workerVars, now, ncalls, inv, fin,
                   logVars, last, memVars>>

take_expires_never(f) == FALSE

\* xSemaphoreTake(done, pdMS_TO_TICKS(timeout_ms)) returns pdFALSE: the
\* signal has not been given when the timeout ends
take_expires(f) == f.sem = "empty"

\* xSemaphoreTake(done, timeout) expires: result = ESP_ERR_TIMEOUT
R_TakeTimeout(t) ==
    /\ cpc[t] = "wait"
    /\ take_expires(frame[t])
    /\ frame' = [frame EXCEPT ![t].result = ESP_ERR_TIMEOUT]
    /\ cpc' = [cpc EXCEPT ![t] = "wait_expired"]
    /\ UNCHANGED <<busVars, regVars, queue, workerVars, now, ncalls, inv, fin,
                   logVars, last, memVars>>

\* if (done) vSemaphoreDelete(done); return result.  Without a semaphore the
\* call comes here straight from xQueueSend, with no wait
R_Return(t) ==
    /\ cpc[t] \in {"sent", "taken", "wait_expired"}
    /\ Finish(t, frame[t], frame[t].result,
              IF cpc[t] = "sent" THEN "no_wait" ELSE cpc[t])
    /\ heap' = [heap EXCEPT !.sem = @ - B2N(frame[t].sem # "none")]
    /\ UNCHANGED <<busVars, regVars, queue, workerVars, now, ncalls, logVars, last,
                   sweep>>

(***************************************************************************)
(* bus_task, the worker.                                                   *)
(***************************************************************************)
\* what a store of the worker through the envelope's pointers does to the
\* frame f: the handler's response (res_buf, res_len), *msg->result = val,
\* or xSemaphoreGive(msg->done)
Store(f, kind, val) ==
    CASE kind = "res_buf" -> [f EXCEPT !.buf = val.buf, !.len = val.len]
      [] kind = "result" -> [f EXCEPT !.result = val]
      [] kind = "done" -> IF f.sem = "none" THEN f ELSE [f EXCEPT !.sem = "given"]

\* The worker stores through a pointer the envelope carries into the frame
\* of the call `from`.  While that call is in progress the store lands in its
\* frame.  Once it has returned the memory is no longer the call's (a popped
\* stack slot, a deleted semaphore, a buffer the caller reuses): the access
\* is recorded in stale, and it either lands nowhere the model sees or
\* (alias) in the frame of the call the same task is making now, which
\* occupies the same stack slot.
WriteCaller(from, kind, alias, val) ==
    LET t == from[1]
        k == from[2]
        store(f) == Store(f, kind, val)
    IN  IF t \notin Threads
        THEN UNCHANGED <<frame, stale>>
        ELSE IF Live(t, k)
        THEN frame' = [frame EXCEPT ![t] = store(@)] /\ UNCHANGED stale
        ELSE /\ stale' = stale \cup {[kind |-> kind, how |-> inv[t][k].how]}
             /\ IF alias /\ cpc[t] \notin {"idle", "locked"}
                THEN frame' = [frame EXCEPT ![t] = store(@)]
                ELSE UNCHANGED frame

xQueueReceive_newest(q) == [msg |-> q[Len(q)], rest |-> SubSeq(q, 1, Len(q) - 1)]

\* xQueueReceive on a non-empty queue: the oldest envelope is copied out
xQueueReceive(q) == [msg |-> Head(q), rest |-> Tail(q)]

\* xQueueReceive(g_bus.queue, &msg, wait_ticks) returns a message
W_Receive ==
    /\ wpc = "idle"
    /\ queue # <<>>
    /\ wmsg' = xQueueReceive(queue).msg
    /\ queue' = xQueueReceive(queue).rest
    /\ wpc' = "proc"
    /\ UNCHANGED <<busVars, regVars, werr, last_service_tick, now, clientVars,
                   logVars, last, memVars>>

\* xQueueReceive(g_bus.queue, &msg, wait_ticks) times out
W_Timeout ==
    /\ wpc = "idle"
    /\ queue = <<>>
    /\ wpc' = "svc"
    /\ UNCHANGED <<busVars, regVars, queue, wmsg, werr, last_service_tick, now,
                   clientVars, logVars, last, memVars>>

\* process_message, MSG_REQ: esp_bus_process_request with the envelope's
\* pattern, payload and response pointers; the handler's response lands in
\* the caller's buffer and length
W_Request ==
    /\ wpc = "proc"
    /\ wmsg.type = "MSG_REQ"
    /\ LET r == esp_bus_process_request(World, task, wmsg.pattern, wmsg.data, wmsg.res)
           t == wmsg.from[1]
           k == wmsg.from[2]
       IN  /\ SetWorld([r.w EXCEPT !.heap.payload =
                                  @ - B2N(~wmsg.result /\ ~wmsg.done /\ wmsg.data.ptr)])
           /\ werr' = r.err
           /\ inv' = IF t \in Threads /\ Len(r.w.hlog) > Len(hlog)
                     THEN [inv EXCEPT ![t][k].h = Append(@, r.w.hlog[Len(r.w.hlog)])]
                     ELSE inv
           /\ IF r.out.wrote
              THEN \E alias \in BOOLEAN :
                       WriteCaller(wmsg.from, "res_buf", alias, r.out)
              ELSE UNCHANGED <<frame, stale>>
    /\ wpc' = IF wmsg.result THEN "result" ELSE IF wmsg.done THEN "give" ELSE "drain"
    /\ UNCHANGED <<busVars, wmsg, last_service_tick, now, cpc, ncalls, fin, last,
                   sweep>>

\* if (msg->result) *msg->result = err;
W_Result ==
    /\ wpc = "result"
    /\ \E alias \in BOOLEAN :
           WriteCaller(wmsg.from, "result", alias, werr)
    /\ heap' = [heap EXCEPT !.payload = @ - B2N(~wmsg.done /\ wmsg.data.ptr)]
    /\ wpc' = IF wmsg.done THEN "give" ELSE "drain"
    /\ UNCHANGED <<busVars, regVars, queue, wmsg, werr, last_service_tick, now,
                   cpc, ncalls, inv, fin, hlog, nlog, errlog, last, sweep>>

\* a variant of W_Give that does not free the payload copy
W_Give_leak ==
    /\ wpc = "give"
    /\ \E alias \in BOOLEAN :
           WriteCaller(wmsg.from, "done", alias, NULL)
    /\ wpc' = "drain"
    /\ UNCHANGED <<busVars, regVars, queue, wmsg, werr, last_service_tick, now,
                   cpc, ncalls, inv, fin, hlog, nlog, errlog, last, memVars>>

\* if (msg->done) xSemaphoreGive(msg->done); the payload copy is freed
W_Give ==
    /\ wpc = "give"
    /\ \E alias \in BOOLEAN :
           WriteCaller(wmsg.from, "done", alias, NULL)
    /\ heap' = [heap EXCEPT !.payload = @ - B2N(wmsg.data.ptr)]
    /\ wpc' = "drain"
    /\ UNCHANGED <<busVars, regVars, queue, wmsg, werr, last_service_tick, now,
                   cpc, ncalls, inv, fin, hlog, nlog, errlog, last, sweep>>

\* process_message, MSG_TRIGGER: nothing to do
W_Trigger ==
    /\ wpc = "proc"
    /\ wmsg.type = "MSG_TRIGGER"
    /\ wpc' = "drain"
    /\ UNCHANGED <<busVars, regVars, queue, wmsg, werr, last_service_tick, now,
                   clientVars, logVars, last, memVars>>

\* a variant of W_Drain that leaves the drain loop after one envelope
W_Drain_once ==
    /\ wpc = "drain"
    /\ wpc' = "svc"
    /\ UNCHANGED <<busVars, regVars, queue, wmsg, werr, last_service_tick, now,
                   clientVars, logVars, last, memVars>>

\* while (xQueueReceive(g_bus.queue, &msg, 0) == pdTRUE) process_message(&msg)
W_Drain ==
    /\ wpc = "drain"
    /\ IF queue # <<>>
       THEN /\ wmsg' = xQueueReceive(queue).msg
            /\ queue' = xQueueReceive(queue).rest
            /\ wpc' = "proc"
       ELSE wpc' = "svc" /\ UNCHANGED <<wmsg, queue>>
    /\ UNCHANGED <<busVars, regVars, werr, last_service_tick, now, clientVars,
                   logVars, last, memVars>>

(***************************************************************************)
(* Services: one-shot and repeating timers, run by the worker.             *)
(***************************************************************************)
\* test_svc_handler of the test suite only counts its calls; caller_svc_fn
\* issues the request its context names with esp_bus_req; emitting_svc_fn
\* emits the event its context names; editing_svc_fn calls the
\* configuration operation its context names
svc_fn(w, self, s) ==
    LET w1 == IF s.fn = "caller_svc_fn"
              THEN esp_bus_req_cb(w, self, s.ctx, "svc").w
              ELSE IF s.fn = "emitting_svc_fn"
              THEN esp_bus_emit_cb(w, s.ctx)
              ELSE IF s.fn = "editing_svc_fn"
              THEN editing_cb(w, s.ctx)
              ELSE w
    IN  [w1 EXCEPT !.hlog = Append(@, [fn |-> s.fn, id |-> s.id, at |-> esp_bus_now_us,
                                       due |-> s.next_run_us, repeat |-> s.repeat])]

RECURSIVE run_due(_, _, _)
\* the first loop of esp_bus_run_services, from position i on: a due
\* service is called, then re-armed (repeating) or marked expired (one-shot)
run_due(w, self, i) ==
    IF i > Len(w.services) THEN w
    ELSE LET s == w.services[i]
         IN  IF s.next_run_us <= 0 \/ esp_bus_now_us < s.next_run_us
             THEN run_due(w, self, i + 1)
             ELSE LET w1 == svc_fn(w, self, s)
                      next_run == IF s.repeat
                                  THEN esp_bus_now_us + s.interval_ms * 1000
                                  ELSE 0
                  IN  run_due([w1 EXCEPT !.services[i].next_run_us = next_run],
                              self, i + 1)

\* a variant of expired that never reclaims a timer
expired_never(s) == FALSE

\* a one-shot timer that has fired
expired(s) == ~s.repeat /\ s.next_run_us = 0

\* a variant of esp_bus_run_services that re-arms a repeating timer from
\* its previous due time
esp_bus_run_services_catch_up(w, self) ==
    LET w1 == run_due(w, self, 1)
        back == [i \in 1..Len(w1.services) |->
                    IF i <= Len(w.services) /\ w.services[i].repeat
                       /\ w1.services[i].next_run_us # w.services[i].next_run_us
                    THEN [w1.services[i] EXCEPT !.next_run_us =
                             w.services[i].next_run_us + w.services[i].interval_ms * 1000]
                    ELSE w1.services[i]]
        kept == SelectSeq(back, LAMBDA s : ~expired(s))
    IN  [w1 EXCEPT !.services = kept,
                   !.heap.node = @ - (Len(w1.services) - Len(kept))]

\* esp_bus_run_services: the due pass, then the removal of the expired
\* one-shot timers
esp_bus_run_services(w, self) ==
    LET w1 == run_due(w, self, 1)
        kept == SelectSeq(w1.services, LAMBDA s : ~expired(s))
    IN  [w1 EXCEPT !.services = kept,
                   !.heap.node = @ - (Len(w1.services) - Len(kept))]

\* esp_bus_trigger(): wakes the worker with a MSG_TRIGGER envelope
esp_bus_trigger ==
    /\ queue' = trigger_result(queue)
    /\ last' = [op |-> "trigger"]
    /\ UNCHANGED <<busVars, regVars, workerVars, now, clientVars, logVars, memVars>>

\* the memory of the timer node at position i: its fields and its next
\* pointer (SLIST_NEXT), -1 for NULL.  free() leaves the memory as it is
\* until it is reused, so a freed node a due pass still points at is kept
\* in the pass's grave
svc_cell(i) ==
    [node |-> services[i],
     next |-> IF i < Len(services) THEN services[i + 1].id ELSE -1]

\* add_service: the node gets the next id and is inserted at the head; the
\* worker is woken with esp_bus_trigger
add_service(fn, interval_ms, ctx, repeat) ==
    /\ IF ~initialized \/ fn = NULL \/ Len(services) >= MaxNodes
       THEN /\ last' = [op |-> "add_service", id |-> -1]
            /\ UNCHANGED <<services, next_svc_id, queue, heap>>
       ELSE /\ services' = SLIST_INSERT_HEAD(services,
                               [id |-> next_svc_id, fn |-> fn, ctx |-> ctx,
                                interval_ms |-> interval_ms,
                                next_run_us |-> esp_bus_now_us + interval_ms * 1000,
                                repeat |-> repeat])
            /\ next_svc_id' = next_svc_id + 1
            /\ heap' = [heap EXCEPT !.node = @ + 1]
            /\ queue' = trigger_result(queue)
            /\ last' = [op |-> "add_service", id |-> next_svc_id, repeat |-> repeat,
                        due |-> esp_bus_now_us + interval_ms * 1000]
    /\ UNCHANGED <<busVars, modules, subs, routes, next_sub_id, workerVars, now,
                   clientVars, logVars, sweep>>

\* esp_bus_after(fn, delay_ms, ctx)
esp_bus_after(fn, delay_ms, ctx) == add_service(fn, delay_ms, ctx, FALSE)

\* esp_bus_every(fn, interval_ms, ctx) and esp_bus_tick(fn, interval_ms, ctx)
esp_bus_every(fn, interval_ms, ctx) == add_service(fn, interval_ms, ctx, TRUE)

\* remove_service: the first node with this id is unlinked and freed
remove_service(id) ==
    /\ services' = IF initialized /\ id >= 0 /\ find_id(services, id) # 0
                   THEN SLIST_REMOVE(services, find_id(services, id))
                   ELSE services
    /\ heap' = [heap EXCEPT !.node = @ - B2N(initialized /\ id >= 0
                                             /\ find_id(services, id) # 0)]
    /\ last' = [op |-> "remove_service", id |-> id,
                found |-> initialized /\ id >= 0 /\ find_id(services, id) # 0]
    /\ sweep' = IF sweep.phase \in {"visit", "call", "clean"} /\ initialized /\ id >= 0
                   /\ find_id(services, id) # 0
                THEN [sweep EXCEPT !.grave = @ \cup {svc_cell(find_id(services, id))}]
                ELSE sweep
    /\ UNCHANGED <<busVars, modules, subs, routes, next_sub_id, next_svc_id, queue,
                   workerVars, now, clientVars, logVars>>

\* esp_bus_cancel(id) and esp_bus_tick_del(id)
esp_bus_cancel(id) == remove_service(id)

\* a variant of W_Services that never runs the due pass
W_Services_never ==
    /\ wpc = "svc"
    /\ wpc' = "idle"
    /\ UNCHANGED <<busVars, regVars, queue, wmsg, werr, last_service_tick, now,
                   clientVars, logVars, last, memVars>>

\* the tail of the worker's loop: services run at most once per tick
W_Services ==
    /\ wpc = "svc"
    /\ IF now # last_service_tick
       THEN /\ last_service_tick' = now
            /\ SetWorld(esp_bus_run_services(World, task))
       ELSE UNCHANGED <<last_service_tick, regVars, queue, hlog, nlog, errlog,
                        heap>>
    /\ wpc' = "idle"
    /\ UNCHANGED <<busVars, wmsg, werr, now, clientVars, stale, last, sweep>>

(***************************************************************************)
(* esp_bus_run_services step by step.  The pass holds no lock, so a client *)
(* task can cancel a timer while the pass points at its node (s or tmp):   *)
(* the pass then reads, calls through and writes a freed node.  Such an    *)
(* access either finds the node's old contents or faults.                  *)
(***************************************************************************)
\* the tail of the worker's loop: a pass starts when the tick has changed;
\* now is read once, s is the first node
S_Begin ==
    /\ wpc = "svc"
    /\ IF now # last_service_tick
       THEN /\ last_service_tick' = now
            /\ sweep' = [phase |-> "visit", now |-> esp_bus_now_us,
                         s |-> IF services = <<>> THEN -1 ELSE services[1].id,
                         tmp |-> -1, grave |-> {}]
            /\ wpc' = "sweep"
       ELSE wpc' = "idle" /\ UNCHANGED <<last_service_tick, sweep>>
    /\ UNCHANGED <<busVars, regVars, queue, wmsg, werr, now, clientVars, logVars,
                   last, heap>>

\* what the pass finds behind the pointer id: the registered node, or the
\* freed one's old contents
svc_deref(id) ==
    IF find_id(services, id) # 0
    THEN svc_cell(find_id(services, id))
    ELSE CHOOSE g \in sweep.grave : g.node.id = id

\* the memory of the timer nodes that a callback has freed: the nodes of
\* the registry that are no longer in left
svc_freed(left) ==
    {svc_cell(i) : i \in {k \in 1..Len(services) :
                              find_id(left, services[k].id) = 0}}

\* one iteration of the first loop up to the callback: tmp = SLIST_NEXT(s);
\* a node that is not due is skipped, the callback of a due one is called
S_Visit ==
    /\ wpc = "sweep"
    /\ sweep.phase = "visit"
    /\ IF sweep.s = -1
       THEN /\ sweep' = [sweep EXCEPT !.phase = "clean"]
            /\ UNCHANGED <<wpc, regVars, queue, hlog, nlog, errlog, heap, stale>>
       ELSE \E intact \in BOOLEAN :
                LET live == find_id(services, sweep.s) # 0
                    cell == svc_deref(sweep.s)
                    n == cell.node
                IN  /\ live => intact
                    /\ stale' = IF live THEN stale
                                ELSE stale \cup {[kind |-> "svc_node", how |-> "freed"]}
                    /\ IF ~intact
                       THEN /\ wpc' = "fault"
                            /\ UNCHANGED <<sweep, regVars, queue, hlog, nlog, errlog, heap>>
                       ELSE IF n.next_run_us <= 0 \/ sweep.now < n.next_run_us
                       THEN /\ sweep' = [sweep EXCEPT !.s = cell.next, !.tmp = cell.next]
                            /\ UNCHANGED <<wpc, regVars, queue, hlog, nlog, errlog, heap>>
                       ELSE /\ LET w == svc_fn(World, task, n)
                               IN  SetWorld([w EXCEPT !.hlog[Len(w.hlog)] =
                                                [fn |-> n.fn, id |-> n.id, at |-> esp_bus_now_us,
                                                 due |-> n.next_run_us, repeat |-> n.repeat,
                                                 live |-> live]])
                            /\ sweep' = [sweep EXCEPT !.phase = "call", !.tmp = cell.next,
                                                      !.grave = @ \cup svc_freed(services')]
                            /\ UNCHANGED wpc
    /\ UNCHANGED <<busVars, wmsg, werr, last_service_tick, now, clientVars, last>>

\* the callback has returned: the node is re-armed (repeating) or marked
\* expired (one-shot), and the loop moves on to tmp
S_Return ==
    /\ wpc = "sweep"
    /\ sweep.phase = "call"
    /\ LET i == find_id(services, sweep.s)
       IN  IF i # 0
           THEN /\ services' = [services EXCEPT ![i].next_run_us =
                                   IF services[i].repeat
                                   THEN sweep.now + services[i].interval_ms * 1000
                                   ELSE 0]
                /\ UNCHANGED stale
           ELSE /\ stale' = stale \cup {[kind |-> "svc_node", how |-> "freed"]}
                /\ UNCHANGED services
    /\ sweep' = [sweep EXCEPT !.phase = "visit", !.s = sweep.tmp]
    /\ UNCHANGED <<busVars, modules, subs, routes, next_sub_id, next_svc_id, queue,
                   workerVars, now, clientVars, hlog, nlog, errlog, last, heap>>

\* the second loop: the expired one-shot timers are unlinked and freed
S_Clean ==
    /\ wpc = "sweep"
    /\ sweep.phase = "clean"
    /\ services' = SelectSeq(services, LAMBDA s : ~expired(s))
    /\ heap' = [heap EXCEPT !.node = @ - (Len(services) - Len(services'))]
    /\ sweep' = NoSweep
    /\ wpc' = "idle"
    /\ UNCHANGED <<busVars, modules, subs, routes, next_sub_id, next_svc_id, queue,
                   wmsg, werr, last_service_tick, now, clientVars, logVars, last>>

\* time passes
Tick ==
    /\ now < MaxTime
    /\ now' = now + 1
    /\ UNCHANGED <<busVars, regVars, queue, workerVars, clientVars, logVars, last,
                   memVars>>

(***************************************************************************)
(* Public operations on subscriptions and routes, and esp_bus_emit.        *)
(***************************************************************************)
\* esp_bus_sub(pattern, handler, ctx): the node gets the next id and is
\* inserted at the head; -1 when calloc fails
esp_bus_sub(pattern, handler, ctx) ==
    /\ IF ~initialized \/ handler = NULL \/ Len(subs) >= MaxNodes
       THEN /\ last' = [op |-> "sub", id |-> -1]
            /\ UNCHANGED <<subs, next_sub_id, heap>>
       ELSE /\ subs' = SLIST_INSERT_HEAD(subs,
                           [id |-> next_sub_id,
                            pattern |-> strncpy(pattern, ESP_BUS_PATTERN_MAX - 1),
                            handler |-> handler, ctx |-> ctx])
            /\ next_sub_id' = next_sub_id + 1
            /\ heap' = [heap EXCEPT !.node = @ + 1]
            /\ last' = [op |-> "sub", id |-> next_sub_id]
    /\ UNCHANGED <<busVars, modules, routes, services, next_svc_id, queue,
                   workerVars, now, clientVars, logVars, sweep>>

\* the memory of the subscription node at position i: its fields and its
\* next pointer, -1 for NULL; kept in the grave of the dispatch under way
\* when the node is freed
sub_cell(i) ==
    [node |-> subs[i],
     next |-> IF i < Len(subs) THEN subs[i + 1].id ELSE -1]

\* esp_bus_unsub(id): the first node with this id is unlinked and freed
esp_bus_unsub(id) ==
    /\ subs' = IF initialized /\ id >= 0 /\ find_id(subs, id) # 0
               THEN SLIST_REMOVE(subs, find_id(subs, id))
               ELSE subs
    /\ heap' = [heap EXCEPT !.node = @ - B2N(initialized /\ id >= 0
                                             /\ find_id(subs, id) # 0)]
    /\ last' = [op |-> "unsub", id |-> id]
    /\ sweep' = IF sweep.phase \in {"evt_visit", "evt_call"} /\ initialized /\ id >= 0
                   /\ find_id(subs, id) # 0
                THEN [sweep EXCEPT !.grave = @ \cup {sub_cell(find_id(subs, id))}]
                ELSE sweep
    /\ UNCHANGED <<busVars, modules, routes, services, next_sub_id, next_svc_id,
                   queue, workerVars, now, clientVars, logVars>>

\* esp_bus_on(evt_pattern, req_pattern, req_data, req_len): when the payload
\* copy cannot be allocated (can_copy is false) the route is added without a
\* payload
esp_bus_on(evt_pattern, req_pattern, req_data, can_copy) ==
    /\ IF ~initialized
       THEN last' = [op |-> "on", ret |-> ESP_ERR_INVALID_ARG] /\ UNCHANGED <<routes, heap>>
       ELSE IF Len(routes) >= MaxNodes
       THEN last' = [op |-> "on", ret |-> ESP_ERR_NO_MEM] /\ UNCHANGED <<routes, heap>>
       ELSE /\ routes' = SLIST_INSERT_HEAD(routes,
                             [evt_pattern |-> strncpy(evt_pattern, ESP_BUS_PATTERN_MAX - 1),
                              req_pattern |-> strncpy(req_pattern, ESP_BUS_PATTERN_MAX - 1),
                              req_data |-> IF req_data.ptr /\ Len(req_data.bytes) > 0
                                              /\ can_copy
                                           THEN req_data
                                           ELSE [ptr |-> FALSE, bytes |-> <<>>],
                              transform |-> NULL, ctx |-> NULL])
            /\ heap' = [heap EXCEPT !.node = @ + 1,
                                    !.payload = @ + B2N(req_data.ptr /\ Len(req_data.bytes) > 0
                                                        /\ can_copy)]
            /\ last' = [op |-> "on", ret |-> ESP_OK, evt |-> evt_pattern,
                        req |-> [ptr |-> TRUE, str |-> req_pattern]]
    /\ UNCHANGED <<busVars, modules, subs, services, next_sub_id, next_svc_id,
                   queue, workerVars, now, clientVars, logVars, sweep>>

\* esp_bus_on_fn(evt_pattern, fn, ctx)
esp_bus_on_fn(evt_pattern, fn, ctx) ==
    /\ IF ~initialized \/ fn = NULL
       THEN last' = [op |-> "on_fn", ret |-> ESP_ERR_INVALID_ARG] /\ UNCHANGED <<routes, heap>>
       ELSE IF Len(routes) >= MaxNodes
       THEN last' = [op |-> "on_fn", ret |-> ESP_ERR_NO_MEM] /\ UNCHANGED <<routes, heap>>
       ELSE /\ routes' = SLIST_INSERT_HEAD(routes,
                             [evt_pattern |-> strncpy(evt_pattern, ESP_BUS_PATTERN_MAX - 1),
                              req_pattern |-> <<>>,
                              req_data |-> [ptr |-> FALSE, bytes |-> <<>>],
                              transform |-> fn, ctx |-> ctx])
            /\ heap' = [heap EXCEPT !.node = @ + 1]
            /\ last' = [op |-> "on_fn", ret |-> ESP_OK]
    /\ UNCHANGED <<busVars, modules, subs, services, next_sub_id, next_svc_id,
                   queue, workerVars, now, clientVars, logVars, sweep>>

\* a variant of off_result that stops at the first route it removes
off_result_first(evt_pattern, req_pattern) ==
    LET hit(r) == r.evt_pattern = evt_pattern
                  /\ (~req_pattern.ptr \/ r.req_pattern = req_pattern.str)
    IN  IF \E i \in 1..Len(routes) : hit(routes[i])
        THEN SLIST_REMOVE(routes, CHOOSE i \in 1..Len(routes) :
                                      hit(routes[i]) /\ \A j \in 1..(i - 1) : ~hit(routes[j]))
        ELSE routes

\* the routes esp_bus_off(evt_pattern, req_pattern) leaves: those whose stored
\* event pattern differs (strcmp) or, with a req_pattern, whose stored request
\* pattern differs
off_result(evt_pattern, req_pattern) ==
    SelectSeq(routes,
              LAMBDA r : ~(r.evt_pattern = evt_pattern
                           /\ (~req_pattern.ptr \/ r.req_pattern = req_pattern.str)))

\* esp_bus_off(evt_pattern, req_pattern)
esp_bus_off(evt_pattern, req_pattern) ==
    /\ IF ~initialized
       THEN last' = [op |-> "off", ret |-> ESP_ERR_INVALID_ARG] /\ UNCHANGED <<routes, heap>>
       ELSE /\ routes' = off_result(evt_pattern, req_pattern)
            /\ LET left == off_result(evt_pattern, req_pattern)
               IN  heap' = [heap EXCEPT
                               !.node = @ - (Len(routes) - Len(left)),
                               !.payload = @ - (Len(SelectSeq(routes,
                                                        LAMBDA r : r.req_data.ptr))
                                                - Len(SelectSeq(left,
                                                          LAMBDA r : r.req_data.ptr)))]
            /\ last' = [op |-> "off", ret |-> ESP_OK, evt |-> evt_pattern,
                        req |-> req_pattern]
    /\ UNCHANGED <<busVars, modules, subs, services, next_sub_id, next_svc_id,
                   queue, workerVars, now, clientVars, logVars, sweep>>

emit_result_unbounded(data, can_copy) ==
    IF ~initialized THEN ESP_ERR_INVALID_ARG
    ELSE IF data.ptr /\ Len(data.bytes) > 0 /\ ~can_copy THEN ESP_ERR_NO_MEM
    ELSE ESP_OK

\* what esp_bus_emit returns: the payload is copied first, then the envelope
\* is sent with xQueueSend(g_bus.queue, &msg, 0)
emit_result(data, can_copy) ==
    IF ~initialized THEN ESP_ERR_INVALID_ARG
    ELSE IF data.ptr /\ Len(data.bytes) > 0 /\ ~can_copy THEN ESP_ERR_NO_MEM
    ELSE IF Len(queue) >= BUS_QUEUE_SIZE THEN ESP_ERR_TIMEOUT
    ELSE ESP_OK

\* esp_bus_emit(src, evt, data, len) on the client task t: the envelope is
\* enqueued without waiting.  The ghost field seen is the esp_bus_off call
\* that had returned last, if any, when the event was emitted.
esp_bus_emit(t, src, evt, data, can_copy) ==
    /\ cpc[t] = "idle"
    /\ ncalls[t] < MaxCalls
    /\ ncalls' = [ncalls EXCEPT ![t] = @ + 1]
    /\ LET msg == [type |-> "MSG_EVT", pattern |-> event_key(src, evt),
                   data |-> IF data.ptr /\ Len(data.bytes) > 0
                            THEN data ELSE [ptr |-> FALSE, bytes |-> <<>>],
                   seen |-> last_off,
                   gone |-> {id \in 0..(next_sub_id - 1) : find_id(subs, id) = 0}]
           ret == emit_result(data, can_copy)
       IN  /\ queue' = IF ret = ESP_OK THEN Append(queue, msg) ELSE queue
           /\ heap' = [heap EXCEPT !.payload = @ + B2N(ret = ESP_OK /\ msg.data.ptr)]
           /\ fin' = [fin EXCEPT ![t] = [k |-> 0, op |-> "emit", src |-> src,
                                         evt |-> evt, ret |-> ret]]
    /\ UNCHANGED <<busVars, regVars, workerVars, now, cpc, frame, inv, logVars, last,
                   sweep>>

\* process_message, MSG_EVT: the key is split again and dispatched when it
\* parses with ':' as the separator; the payload copy is freed
W_Event ==
    /\ wpc = "proc"
    /\ wmsg.type = "MSG_EVT"
    /\ LET p == esp_bus_parse_pattern(wmsg.pattern)
       IN  IF p.ok /\ p.sep = ":"
           THEN SetWorld([esp_bus_dispatch_event(World, task, p.module, p.action,
                                                 wmsg.data)
                             EXCEPT !.heap.payload = @ - B2N(wmsg.data.ptr)])
           ELSE /\ heap' = [heap EXCEPT !.payload = @ - B2N(wmsg.data.ptr)]
                /\ UNCHANGED <<regVars, queue, hlog, nlog, errlog>>
    /\ wpc' = "drain"
    /\ UNCHANGED <<busVars, wmsg, werr, last_service_tick, now, clientVars, stale,
                   last, sweep>>

(***************************************************************************)
(* The subscriber loop of esp_bus_dispatch_event step by step.  The loop   *)
(* holds no lock, so a client task can remove a subscription while the     *)
(* loop points at its node: the loop then reads a freed node, which either *)
(* still has its old contents or faults.                                   *)
(***************************************************************************)
\* process_message, MSG_EVT, up to the first subscription
E_Begin ==
    /\ wpc = "proc"
    /\ wmsg.type = "MSG_EVT"
    /\ LET p == esp_bus_parse_pattern(wmsg.pattern)
       IN  IF p.ok /\ p.sep = ":"
           THEN /\ sweep' = [phase |-> "evt_visit",
                             s |-> IF subs = <<>> THEN -1 ELSE subs[1].id,
                             grave |-> {}]
                /\ wpc' = "disp"
                /\ UNCHANGED heap
           ELSE /\ heap' = [heap EXCEPT !.payload = @ - B2N(wmsg.data.ptr)]
                /\ wpc' = "drain"
                /\ UNCHANGED sweep
    /\ UNCHANGED <<busVars, regVars, queue, wmsg, werr, last_service_tick, now,
                   clientVars, logVars, last>>

\* what the loop finds behind the pointer id: the registered node, or the
\* freed one's old contents
sub_deref(id) ==
    IF find_id(subs, id) # 0
    THEN sub_cell(find_id(subs, id))
    ELSE CHOOSE g \in sweep.grave : g.node.id = id

\* the memory of the subscription nodes that a callback has freed: the nodes
\* of the registry that are no longer in left
sub_freed(left) ==
    {sub_cell(i) : i \in {k \in 1..Len(subs) : find_id(left, subs[k].id) = 0}}

\* one iteration up to the callback; after the last subscription the routes
\* are processed and the payload copy is freed
E_Visit ==
    /\ wpc = "disp"
    /\ sweep.phase = "evt_visit"
    /\ LET p == esp_bus_parse_pattern(wmsg.pattern)
           full == event_key(p.module, p.action)
       IN  IF sweep.s = -1
           THEN /\ SetWorld([dispatch_routes(World, task, full, p.action, wmsg.data, 1)
                                EXCEPT !.heap.payload = @ - B2N(wmsg.data.ptr)])
                /\ sweep' = NoSweep
                /\ wpc' = "drain"
                /\ UNCHANGED stale
           ELSE \E intact \in BOOLEAN :
                    LET live == find_id(subs, sweep.s) # 0
                        cell == sub_deref(sweep.s)
                    IN  /\ live => intact
                        /\ stale' = IF live THEN stale
                                    ELSE stale \cup {[kind |-> "sub_node", how |-> "freed"]}
                        /\ IF ~intact
                           THEN /\ wpc' = "fault"
                                /\ UNCHANGED <<sweep, regVars, queue, hlog, nlog, errlog, heap>>
                           ELSE IF esp_bus_match_pattern(cell.node.pattern, full)
                           THEN /\ SetWorld(evt_handler(World, task, cell.node, full,
                                                       p.action, wmsg.data))
                                /\ sweep' = [sweep EXCEPT !.phase = "evt_call",
                                                          !.grave = @ \cup sub_freed(subs')]
                                /\ UNCHANGED wpc
                           ELSE /\ sweep' = [sweep EXCEPT !.s = cell.next]
                                /\ UNCHANGED <<wpc, regVars, queue, hlog, nlog, errlog, heap>>
    /\ UNCHANGED <<busVars, wmsg, werr, last_service_tick, now, clientVars, last>>

\* the callback has returned: sub = SLIST_NEXT(sub)
E_Return ==
    /\ wpc = "disp"
    /\ sweep.phase = "evt_call"
    /\ \E intact \in BOOLEAN :
           LET live == find_id(subs, sweep.s) # 0
           IN  /\ live => intact
               /\ stale' = IF live THEN stale
                           ELSE stale \cup {[kind |-> "sub_node", how |-> "freed"]}
               /\ IF intact
                  THEN sweep' = [sweep EXCEPT !.phase = "evt_visit",
                                              !.s = sub_deref(sweep.s).next]
                       /\ UNCHANGED wpc
                  ELSE wpc' = "fault" /\ UNCHANGED sweep
    /\ UNCHANGED <<busVars, regVars, queue, wmsg, werr, last_service_tick, now,
                   clientVars, hlog, nlog, errlog, last, heap>>

(***************************************************************************)
(* Requests: client tasks call esp_bus_req while the worker runs.          *)
(***************************************************************************)
\* the worker's loop without its branches for requests, events and triggers
WorkerLoop ==
    \/ W_Receive
    \/ W_Timeout
    \/ W_Drain
    \/ W_Services

\* the worker while the queue carries requests
Worker ==
    \/ WorkerLoop
    \/ W_Request
    \/ W_Result
    \/ W_Give

\* the bus is brought up once and module m is registered once; then a client
\* task makes blocking and fire-and-forget requests while the worker runs
NextReq ==
    \/ ~initialized /\ esp_bus_init
    \/ initialized /\ Len(queue) < BUS_QUEUE_SIZE /\ esp_bus_trigger
    \/ modules = <<>> /\ esp_bus_reg(m_test)
    \/ \E c \in ReqCalls, can_copy, sem_ok \in BOOLEAN :
           R_Call("t1", c, can_copy, sem_ok)
    \/ \E t \in Threads : R_SendOk(t)
    \/ \E t \in Threads : R_SendTimeout(t)
    \/ \E t \in Threads : R_Take(t)
    \/ \E t \in Threads : R_TakeTimeout(t)
    \/ \E t \in Threads : R_Return(t)
    \/ Worker

SpecReq == Init /\ [][NextReq]_vars

\* the last call of t that returned, if it was a request to a module that
\* was registered with a handler
Served(t) == fin[t].k > 0 /\ fin[t].reg0

\* C1: a blocking esp_bus_req from a client task to a registered module with
\* a handler that returns neither a timeout nor an allocation failure has had
\* its handler invoked exactly once, before the return, with the action and
\* the request bytes of the call, and returns that invocation's result,
\* response bytes and response length.
C1_BlockingCallIsServedOnce ==
    \A t \in Threads :
        (Served(t) /\ fin[t].c.timeout > 0
            /\ fin[t].ret \notin {ESP_ERR_TIMEOUT, ESP_ERR_NO_MEM}) =>
        /\ Len(fin[t].invs) = 1
        /\ fin[t].invs[1].action = esp_bus_parse_pattern(fin[t].c.pattern).action
        /\ fin[t].invs[1].req.bytes = fin[t].c.req.bytes
        /\ fin[t].ret = fin[t].invs[1].err
        /\ fin[t].buf = fin[t].invs[1].out.buf
        /\ fin[t].len = fin[t].invs[1].out.len

\* C3: once a blocking esp_bus_req has returned because its wait on the
\* semaphore expired, the worker accesses neither the call's result slot, nor
\* its response buffer and length, nor its semaphore.
C3_NoAccessAfterWaitExpired ==
    \A a \in stale : a.how # "wait_expired"

NextStrict ==
    \/ ~initialized /\ esp_bus_init
    \/ initialized /\ Len(queue) < BUS_QUEUE_SIZE /\ esp_bus_trigger
    \/ modules = <<>> /\ esp_bus_reg(m_test)
    \/ \E enable \in BOOLEAN : esp_bus_strict(enable)
    \/ \E sem_ok \in BOOLEAN : R_Call("t1", c_unknown, TRUE, sem_ok)
    \/ \E t \in Threads : R_SendOk(t)
    \/ \E t \in Threads : R_SendTimeout(t)
    \/ \E t \in Threads : R_Take(t)
    \/ \E t \in Threads : R_TakeTimeout(t)
    \/ \E t \in Threads : R_Return(t)
    \/ Worker

SpecStrict == Init /\ [][NextStrict]_vars

\* the pattern names a module that is not registered
Unregistered(pattern) ==
    LET p == esp_bus_parse_pattern(pattern)
    IN  p.ok /\ p.sep = "." /\ esp_bus_find_module(modules, p.module) = 0

NextReg ==
    \/ esp_bus_init
    \/ \E m \in RegModules : esp_bus_reg(m)
    \/ \E name \in RegNames : esp_bus_unreg(name)

SpecReg == Init /\ [][NextReg]_vars

C9_StoredNamesAreUnique ==
    \A i, j \in 1..Len(modules) : i # j => modules[i].name # modules[j].name

(***************************************************************************)
(* Events: a client task subscribes, routes and emits while the worker     *)
(* dispatches.                                                             *)
(***************************************************************************)
NextEvt ==
    \/ ~initialized /\ esp_bus_init
    \/ \E pattern \in SubPatterns :
           next_sub_id < MaxIds /\ esp_bus_sub(pattern, "test_evt_handler", NULL)
    \/ \E id \in 0..(MaxIds - 1) : esp_bus_unsub(id)
    \/ \E e \in Emits : esp_bus_emit("t1", e[1], e[2], NoData, TRUE)
    \/ WorkerLoop
    \/ W_Event

SpecEvt == Init /\ [][NextEvt]_vars

RECURSIVE GlobMatch(_, _)
\* the anchored glob: every character of p but '*' stands for itself, and
\* each '*' for any run of characters
GlobMatch(p, t) ==
    IF p = <<>> THEN t = <<>>
    ELSE IF Head(p) = "*"
    THEN \E i \in 0..Len(t) : GlobMatch(Tail(p), SubSeq(t, i + 1, Len(t)))
    ELSE t # <<>> /\ Head(p) = Head(t) /\ GlobMatch(Tail(p), Tail(t))

Count(seq, Test(_)) == Len(SelectSeq(seq, Test))

EvtHandlers == {"test_evt_handler", "caller_evt_handler"}

\* the worker is about to dispatch the event in wmsg
Dispatching ==
    /\ wpc = "proc"
    /\ wmsg.type = "MSG_EVT"
    /\ esp_bus_parse_pattern(wmsg.pattern).ok
    /\ esp_bus_parse_pattern(wmsg.pattern).sep = ":"

\* the callbacks a step has invoked
NewCalls == SubSeq(hlog', Len(hlog) + 1, Len(hlog'))

\* how often the callback of subscription sub ran in the log calls
Fired(calls, sub) ==
    Count(calls, LAMBDA e : e.fn \in EvtHandlers /\ e.id = sub.id)

\* C6: when the worker dispatches an event, the callback of each registered
\* subscription runs once if the subscription's pattern matches the key
\* "source:event" as a glob, and not at all otherwise.
C6_SubscribersFireOnceIffMatch ==
    [][(W_Event /\ Dispatching) =>
          \A j \in 1..Len(subs) :
              Fired(NewCalls, subs[j]) =
                  IF GlobMatch(subs[j].pattern, wmsg.pattern) THEN 1 ELSE 0]_vars

\* the subscription to "x*:evt" has fired for x1:evt, and the worker has just
\* dispatched another event without calling it
C6_Witness ==
    \E j \in 1..Len(subs) :
        /\ subs[j].pattern = p_x_evt
        /\ Fired(hlog, subs[j]) = 1
        /\ \E n \in 1..Len(hlog) :
               hlog[n].id = subs[j].id /\ hlog[n].key = s_x1 \o <<":">> \o s_evt
        /\ wpc = "drain"
        /\ wmsg.type = "MSG_EVT"
        /\ wmsg.pattern \in {s_y1 \o <<":">> \o s_evt, s_x1 \o <<":">> \o s_other}
        /\ hlog[Len(hlog)].key # wmsg.pattern

(***************************************************************************)
(* Routes: a client task adds and removes static routes to module m and    *)
(* emits while the worker dispatches.                                      *)
(***************************************************************************)
NextRoute ==
    \/ ~initialized /\ esp_bus_init
    \/ modules = <<>> /\ esp_bus_reg(m_test)
    \/ \E r \in Routes, can_copy \in BOOLEAN : esp_bus_on(r.evt, r.req, r.data, can_copy)
    \/ \E r \in Routes : esp_bus_off(r.evt, [ptr |-> TRUE, str |-> r.req])
    \/ \E src \in {s_x1, s_y1} : esp_bus_emit("t1", src, s_evt, NoData, TRUE)
    \/ WorkerLoop
    \/ W_Event

SpecRoute == Init /\ [][NextRoute]_vars

\* route r is static and its target module is registered with a request
\* handler in the registry mods
Routable(r, mods) ==
    LET p == esp_bus_parse_pattern(r.req_pattern)
        i == esp_bus_find_module(mods, p.module)
    IN  r.transform = NULL /\ p.ok /\ p.sep = "." /\ i # 0 /\ mods[i].on_req # NULL

\* how often the handler of r's target module was invoked with r's action and
\* r's stored payload in the log calls
Routed(calls, r) ==
    LET p == esp_bus_parse_pattern(r.req_pattern)
    IN  Count(calls, LAMBDA e : /\ e.fn \in {"test_req_handler", "caller_req_handler"}
                                /\ e.mod = p.module
                                /\ e.action = p.action
                                /\ e.req = r.req_data)

\* the registered static routes that match the key and ask for the same
\* request as r
Triggering(key, r) ==
    Count(routes, LAMBDA q : /\ q.transform = NULL
                             /\ q.req_pattern = r.req_pattern
                             /\ q.req_data = r.req_data
                             /\ GlobMatch(q.evt_pattern, key))

\* C7: when the worker dispatches an event, the handler of a static route's
\* target module is invoked, inside the dispatch, with the route's action and
\* stored payload once for each registered route whose event pattern matches
\* the key; and when the event was emitted after esp_bus_off(E, R) had
\* returned, with no route added since, no route from E to R is registered
\* and so none triggers its request.
C7_RouteFiresUntilOff ==
    [][(W_Event /\ Dispatching) =>
          /\ \A j \in 1..Len(routes) :
                 Routable(routes[j], modules) =>
                     Routed(NewCalls, routes[j]) = Triggering(wmsg.pattern, routes[j])
          /\ (wmsg.seen.op = "off" /\ last_off = wmsg.seen) =>
                 \A j \in 1..Len(routes) :
                     ~(/\ routes[j].evt_pattern = wmsg.seen.evt
                       /\ routes[j].req_pattern = wmsg.seen.req.str)]_vars

\* the route "x*:evt" -> "m.echo" has made the handler of m echo the stored
\* payload once; then the route was removed with esp_bus_off, x1:evt was
\* emitted again, and the worker has just dispatched it without a call
C7_Witness ==
    /\ Len(hlog) = 1
    /\ hlog[1].fn = "test_req_handler"
    /\ hlog[1].action = a_echo
    /\ hlog[1].req.bytes = <<"h", "i">>
    /\ wpc = "drain"
    /\ wmsg.type = "MSG_EVT"
    /\ wmsg.pattern = s_x1 \o <<":">> \o s_evt
    /\ wmsg.seen.op = "off"
    /\ wmsg.seen.req.str = p_m_echo
    /\ last_off = wmsg.seen

(***************************************************************************)
(* Timers: a client task arms and cancels one-shot timers while time       *)
(* passes and the worker runs its loop.                                    *)
(***************************************************************************)
Delays == {0, 1}

NextSvc ==
    \/ ~initialized /\ esp_bus_init
    \/ \E delay_ms \in Delays :
           next_svc_id < MaxIds /\ esp_bus_after("test_svc_handler", delay_ms, NULL)
    \/ \E id \in 0..(MaxIds - 1) : esp_bus_cancel(id)
    \/ Tick
    \/ WorkerLoop
    \/ W_Trigger

SpecSvc == Init /\ [][NextSvc]_vars

SvcFns == {"test_svc_handler", "caller_svc_fn"}

\* how often the callback of the one-shot timer id has run
Shots(log, id) ==
    Count(log, LAMBDA e : e.fn \in SvcFns /\ e.id = id /\ ~e.repeat)

\* the one-shot timers that are due in a pass at the present time
Due == {i \in 1..Len(services) :
            /\ ~services[i].repeat
            /\ services[i].next_run_us > 0
            /\ esp_bus_now_us >= services[i].next_run_us}

\* C10: the callback of a one-shot timer runs in the first due pass at or
\* after its due time, never before and never a second time; after that pass
\* the timer is not in the timer registry, and an esp_bus_cancel with its id
\* changes no registry.
C10_OneShotFiresOnce ==
    [][/\ \A id \in 0..(MaxIds - 1) :
              /\ Shots(hlog', id) <= 1
              /\ Shots(hlog', id) = 1 => find_id(services', id) = 0
              /\ (esp_bus_cancel(id) /\ Shots(hlog, id) = 1) => UNCHANGED regVars
       /\ \A n \in 1..Len(hlog') :
              hlog'[n].fn \in SvcFns => hlog'[n].at >= hlog'[n].due
       /\ (W_Services /\ now # last_service_tick) =>
              \A i \in Due : /\ Shots(hlog, services[i].id) = 0
                             /\ Shots(hlog', services[i].id) = 1]_vars

\* a one-shot timer armed with a delay has fired, at its due time and not at
\* once; it is gone from the registry, and an esp_bus_cancel with its id has
\* found nothing to remove
C10_Witness ==
    /\ last.op = "remove_service"
    /\ ~last.found
    /\ Shots(hlog, last.id) = 1
    /\ find_id(services, last.id) = 0
    /\ \E n \in 1..Len(hlog) :
           /\ hlog[n].id = last.id
           /\ hlog[n].at >= hlog[n].due
           /\ hlog[n].due > 1000
    /\ esp_bus_now_us > hlog[Len(hlog)].at

(***************************************************************************)
(* Requests made on the worker: a request handler, a subscriber, a route   *)
(* transform and a timer callback each call esp_bus_req for "m.fail",      *)
(* while a client task keeps the queue filled.                             *)
(***************************************************************************)
Nested == {n_fail0, n_fail1}

\* the callbacks are installed one after the other, then the client task
\* calls module f, calls module m and emits x1:evt
NextNest ==
    \/ ~initialized /\ esp_bus_init
    \/ initialized /\ Len(queue) < BUS_QUEUE_SIZE /\ esp_bus_trigger
    \/ modules = <<>> /\ esp_bus_reg(m_test)
    \/ \E n \in Nested : Len(modules) = 1 /\ esp_bus_reg(m_fwd(n))
    \/ Len(modules) = 2 /\ subs = <<>>
           /\ esp_bus_sub(p_x1_any, "caller_evt_handler", n_fail1)
    \/ subs # <<>> /\ routes = <<>>
           /\ esp_bus_on_fn(p_x_evt, "caller_transform", n_fail0)
    \/ routes # <<>> /\ next_svc_id = 0 /\ esp_bus_after("caller_svc_fn", 0, n_fail1)
    \/ \E c \in {c_fwd, c_call} : next_svc_id > 0 /\ R_Call("t1", c, TRUE, TRUE)
    \/ next_svc_id > 0 /\ esp_bus_emit("t1", s_x1, s_evt, NoData, TRUE)
    \/ \E t \in Threads : R_SendOk(t)
    \/ \E t \in Threads : R_SendTimeout(t)
    \/ \E t \in Threads : R_Take(t)
    \/ \E t \in Threads : R_TakeTimeout(t)
    \/ \E t \in Threads : R_Return(t)
    \/ Worker
    \/ W_Event
    \/ W_Trigger

SpecNest == Init /\ [][NextNest]_vars

\* C2: every esp_bus_req made by a callback on the worker - a request
\* handler, a subscriber, a route transform or a timer callback - has run the
\* handler of its target once and returned that handler's result, has put
\* nothing in the queue and has waited for nothing, whatever its timeout and
\* whether or not the queue was full.
C2_WorkerCallsAreDirect ==
    \A i \in 1..Len(nlog) :
        /\ ~nlog[i].enq
        /\ ~nlog[i].waited
        /\ nlog[i].queued = 0
        /\ nlog[i].ninv = 1
        /\ nlog[i].err = ESP_ERR_INVALID_STATE

\* each of the four kinds of callback has called esp_bus_req on the worker,
\* one call with a timeout while the queue was full and one with timeout 0
C2_Witness ==
    /\ \A by \in {"on_req", "sub", "transform", "svc"} :
           \E i \in 1..Len(nlog) : nlog[i].by = by
    /\ \E i \in 1..Len(nlog) : nlog[i].full /\ nlog[i].timeout > 0
    /\ \E i \in 1..Len(nlog) : nlog[i].timeout = 0

(***************************************************************************)
(* Repeating timers: a client task arms and cancels repeating timers       *)
(* while the worker runs its due pass step by step.                        *)
(***************************************************************************)
NextTick ==
    \/ ~initialized /\ esp_bus_init
    \/ next_svc_id < MaxIds /\ esp_bus_every("test_svc_handler", 1, NULL)
    \/ initialized /\ Len(queue) < BUS_QUEUE_SIZE /\ esp_bus_trigger
    \/ \E id \in 0..(MaxIds - 1) : esp_bus_cancel(id)
    \/ Tick
    \/ W_Receive
    \/ W_Timeout
    \/ W_Drain
    \/ W_Trigger
    \/ S_Begin
    \/ S_Visit
    \/ S_Return
    \/ S_Clean

SpecTick == Init /\ [][NextTick]_vars

\* the invocations of the callback of timer id that began while the timer
\* was not in the registry
LateShots(id) ==
    Count(hlog, LAMBDA e : e.fn \in SvcFns /\ e.id = id /\ ~e.live)

\* C11: once esp_bus_cancel(id) has returned the timer is not in the registry
\* and never comes back, and the timer's callback is called at most once
\* while the timer is not in the registry: after the cancellation the
\* callback starts at most once more, whatever the worker was doing.
C11_CancelledTimerFiresAtMostOnceMore ==
    [][\A id \in 0..(MaxIds - 1) :
          /\ LateShots(id)' <= 1
          /\ esp_bus_cancel(id) => find_id(services', id) = 0
          /\ (id < next_svc_id /\ find_id(services, id) = 0) =>
                 find_id(services', id) = 0]_vars

\* a repeating timer was cancelled while the due pass pointed at it; its
\* callback was called once more after that, and a later pass has run
\* without calling it again
C11_Witness ==
    \E id \in 0..(MaxIds - 1) :
        /\ LateShots(id) = 1
        /\ sweep.phase = "none"
        /\ wpc = "idle"
        /\ last_service_tick = now
        /\ \E n \in 1..Len(hlog) :
               hlog[n].id = id /\ ~hlog[n].live /\ hlog[n].at < esp_bus_now_us

(***************************************************************************)
(* Unsubscribing: a client task subscribes, unsubscribes and emits while   *)
(* the worker dispatches step by step.                                     *)
(***************************************************************************)
NextUnsub ==
    \/ ~initialized /\ esp_bus_init
    \/ \E pattern \in SubPatterns :
           next_sub_id < MaxIds /\ esp_bus_sub(pattern, "test_evt_handler", NULL)
    \/ \E id \in 0..(MaxIds - 1) : esp_bus_unsub(id)
    \/ \E e \in Emits : esp_bus_emit("t1", e[1], e[2], NoData, TRUE)
    \/ WorkerLoop
    \/ E_Begin
    \/ E_Visit
    \/ E_Return

SpecUnsub == Init /\ [][NextUnsub]_vars

\* C12: the callback of a subscription that had been removed when an event
\* was emitted is not called for that event; esp_bus_unsub(id) removes the
\* subscription id and leaves every other subscription as it is, and with
\* an id that is not registered it changes nothing; a subscription that
\* is registered when the dispatch reaches it is called iff it matches.
C12_UnsubscribedCallbackIsNotCalled ==
    [][/\ wpc = "disp" =>
             \A n \in 1..Len(NewCalls) :
                 /\ NewCalls[n].id \notin wmsg.gone
                 /\ NewCalls[n].key = wmsg.pattern
       /\ \A id \in 0..(MaxIds - 1) :
             esp_bus_unsub(id) =>
                 /\ find_id(subs', id) = 0
                 /\ subs' = SelectSeq(subs, LAMBDA n : n.id # id)
                 /\ find_id(subs, id) = 0 => UNCHANGED <<regVars, queue, heap>>
       /\ \A id \in 0..(MaxIds - 1) :
             (id < next_sub_id /\ find_id(subs, id) = 0) => find_id(subs', id) = 0
       /\ (E_Visit /\ find_id(subs, sweep.s) # 0 /\ wpc' # "fault") =>
             Len(NewCalls) =
                 B2N(GlobMatch(subs[find_id(subs, sweep.s)].pattern, wmsg.pattern))]_vars

\* both subscriptions fired for the first event; subscription 0 was then
\* removed, and the second event, with the same key, has been dispatched to
\* subscription 1 alone
C12_Witness ==
    /\ wpc = "drain"
    /\ wmsg.type = "MSG_EVT"
    /\ wmsg.gone = {0}
    /\ find_id(subs, 1) # 0
    /\ Len(hlog) = 3
    /\ hlog[2].id = 0 /\ hlog[2].key = wmsg.pattern
    /\ hlog[3].id = 1 /\ hlog[3].key = wmsg.pattern

(***************************************************************************)
(* Emitting into a full queue: a client task emits events with and without *)
(* a payload while triggers and earlier events fill the queue; one         *)
(* subscription and one route to module m listen.                          *)
(***************************************************************************)
EmitData == {NoData, [ptr |-> TRUE, bytes |-> <<"h", "i">>]}

NextEmit ==
    \/ ~initialized /\ esp_bus_init
    \/ initialized /\ Len(queue) < BUS_QUEUE_SIZE /\ esp_bus_trigger
    \/ modules = <<>> /\ esp_bus_reg(m_test)
    \/ subs = <<>> /\ esp_bus_sub(p_x_evt, "test_evt_handler", NULL)
    \/ \E r \in Routes : routes = <<>> /\ esp_bus_on(r.evt, r.req, r.data, TRUE)
    \/ \E data \in EmitData, can_copy \in BOOLEAN :
           esp_bus_emit("t1", s_x1, s_evt, data, can_copy)
    \/ WorkerLoop
    \/ W_Event
    \/ W_Trigger

SpecEmit == Init /\ [][NextEmit]_vars

\* C13: esp_bus_emit is one step of its caller: it returns without waiting.
\* On a full queue it fails, with ESP_ERR_TIMEOUT once its payload copy, if
\* any, was allocated, and leaves the queue, the allocations, the registry
\* and the callbacks' invocations as they were; an event envelope enters
\* the queue only with an emit that returns ESP_OK.
C13_EmitOnFullQueueFails ==
    [][/\ \A data \in EmitData, can_copy \in BOOLEAN :
             esp_bus_emit("t1", s_x1, s_evt, data, can_copy) =>
                 /\ cpc'["t1"] = "idle"
                 /\ (initialized /\ Len(queue) >= BUS_QUEUE_SIZE) =>
                        /\ fin'["t1"].ret =
                               IF data.ptr /\ ~can_copy THEN ESP_ERR_NO_MEM
                               ELSE ESP_ERR_TIMEOUT
                        /\ UNCHANGED <<queue, heap, regVars, hlog, workerVars>>
       /\ (Len(queue') > Len(queue) /\ queue'[Len(queue')].type = "MSG_EVT") =>
             /\ fin'["t1"].op = "emit"
             /\ fin'["t1"].ret = ESP_OK
             /\ ncalls'["t1"] = ncalls["t1"] + 1]_vars

\* an emit with a payload has just failed on a full queue, with the
\* subscription and the route registered, and nothing is allocated for it:
\* the payloads allocated are those of the route and of the queued events
C13_Witness ==
    /\ ncalls["t1"] > 0
    /\ fin["t1"].op = "emit"
    /\ fin["t1"].ret = ESP_ERR_TIMEOUT
    /\ Len(queue) = BUS_QUEUE_SIZE
    /\ Len(subs) = 1
    /\ Len(routes) = 1
    /\ wpc = "idle"
    /\ \E n \in 1..Len(queue) : queue[n].type = "MSG_EVT" /\ queue[n].data.ptr
    /\ heap.payload = Count(routes, LAMBDA r : r.req_data.ptr)
                      + Count(queue, LAMBDA q : q.type = "MSG_EVT" /\ q.data.ptr)

(***************************************************************************)
(* Queue order: task t1 sends blocking requests and task t2 emits events   *)
(* to the worker, which serves module m and one subscription.              *)
(***************************************************************************)
NextFifo ==
    \/ ~initialized /\ esp_bus_init
    \/ modules = <<>> /\ esp_bus_reg(m_test)
    \/ subs = <<>> /\ esp_bus_sub(p_x1_any, "test_evt_handler", NULL)
    \/ R_Call("t1", c_echo, TRUE, TRUE)
    \/ esp_bus_emit("t2", s_x1, s_evt, NoData, TRUE)
    \/ \E t \in Threads : R_SendOk(t)
    \/ \E t \in Threads : R_SendTimeout(t)
    \/ \E t \in Threads : R_Take(t)
    \/ \E t \in Threads : R_TakeTimeout(t)
    \/ \E t \in Threads : R_Return(t)
    \/ Worker
    \/ W_Event

SpecFifo == Init /\ [][NextFifo]_vars

\* C14: a step leaves the queue and the worker's envelope alone, or appends
\* one envelope at the tail of the queue, or is the worker, between two
\* envelopes, taking the one at the head; callbacks run only while the
\* worker processes the envelope it holds, and belong to it.  So the
\* envelopes are processed one at a time in the order they were enqueued.
C14_EnvelopesAreProcessedInQueueOrder ==
    [][/\ \/ UNCHANGED <<queue, wmsg>>
          \/ /\ Len(queue') = Len(queue) + 1
             /\ SubSeq(queue', 1, Len(queue)) = queue
             /\ UNCHANGED wmsg
          \/ /\ queue # <<>>
             /\ queue' = Tail(queue)
             /\ wmsg' = Head(queue)
             /\ wpc \in {"idle", "drain"}
             /\ wpc' = "proc"
       /\ hlog' # hlog =>
             /\ wpc = "proc"
             /\ UNCHANGED <<wmsg, queue>>
             /\ Len(NewCalls) = 1
             /\ \/ /\ wmsg.type = "MSG_REQ"
                   /\ NewCalls[1].fn = "test_req_handler"
                   /\ NewCalls[1].action = esp_bus_parse_pattern(wmsg.pattern).action
                \/ /\ wmsg.type = "MSG_EVT"
                   /\ NewCalls[1].fn = "test_evt_handler"
                   /\ NewCalls[1].key = wmsg.pattern]_vars

\* the worker has served a request of t1 and now holds an event of t2,
\* while the next request of t1 waits in the queue behind it
C14_Witness ==
    /\ wpc = "proc"
    /\ wmsg.type = "MSG_EVT"
    /\ hlog # <<>>
    /\ hlog[Len(hlog)].fn = "test_req_handler"
    /\ cpc["t1"] = "wait"
    /\ Len(queue) = 1
    /\ queue[1].type = "MSG_REQ"

(***************************************************************************)
(* Requests under fair scheduling of the calling tasks only: a task that   *)
(* blocks in xQueueSend or xSemaphoreTake is resumed by the kernel when    *)
(* room or the signal arrives or when its timeout ends, and a task that    *)
(* can run to its return does so.  Nothing is assumed about the worker: it *)
(* may stay in a handler or never run again.                               *)
(***************************************************************************)
SpecReqFair ==
    /\ Init
    /\ [][NextReq]_vars
    /\ \A t \in Threads :
           /\ WF_vars(R_SendOk(t) \/ R_SendTimeout(t))
           /\ WF_vars(R_Take(t) \/ R_TakeTimeout(t))
           /\ WF_vars(R_Return(t))

\* the values an esp_err_t result takes
Results ==
    {ESP_OK, ESP_ERR_TIMEOUT, ESP_ERR_NO_MEM, ESP_ERR_INVALID_ARG,
     ESP_ERR_INVALID_STATE, ESP_ERR_NOT_FOUND, ESP_ERR_NOT_SUPPORTED}

\* the stages of a call in the order it goes through them
Stage ==
    [sendwait |-> 1, wait |-> 2, sent |-> 2, taken |-> 3, wait_expired |-> 3,
     idle |-> 4]

d_hi == [ptr |-> TRUE, bytes |-> <<"h", "i">>]

NextLife ==
    \/ esp_bus_init
    \/ esp_bus_deinit
    \/ modules = <<>> /\ esp_bus_reg(m_test)
    \/ esp_bus_unreg(s_m)
    \/ subs = <<>> /\ next_sub_id < MaxIds /\ esp_bus_sub(p_x_evt, "test_evt_handler", NULL)
    \/ routes = <<>> /\ esp_bus_on(p_x_evt, p_m_echo, d_hi, TRUE)
    \/ esp_bus_off(p_x_evt, [ptr |-> TRUE, str |-> p_m_echo])
    \/ services = <<>> /\ next_svc_id < MaxIds /\ esp_bus_every("test_svc_handler", 1, NULL)
    \/ esp_bus_emit("t1", s_x1, s_evt, d_hi, TRUE)
    \/ R_Call("t1", c_call, TRUE, TRUE)
    \/ R_Return("t1")
    \/ WorkerLoop
    \/ W_Request
    \/ W_Event
    \/ W_Trigger

SpecLife == Init /\ [][NextLife]_vars

\* C16: esp_bus_init on an initialized bus returns ESP_OK and changes nothing:
\* not the registries, the queue, the worker, strict mode, the error
\* callback, the id counters or the allocations.
C16_InitOfInitializedBusIsNoOp ==
    [][(initialized /\ esp_bus_init) =>
          /\ last'.ret = ESP_OK
          /\ UNCHANGED <<busVars, regVars, queue, workerVars, memVars, clientVars,
                         logVars, now>>]_vars

\* esp_bus_init has just returned on a bus that holds a module, a
\* subscription, a route, a timer and a queued envelope
C16_Witness ==
    /\ last.op = "init"
    /\ last.ret = ESP_OK
    /\ initialized
    /\ modules # <<>> /\ subs # <<>> /\ routes # <<>> /\ services # <<>>
    /\ queue # <<>>
    /\ wpc = "proc"

\* C17: once esp_bus_deinit has returned ESP_OK the bus is not initialized,
\* its four registries are empty, and nothing the bus allocated remains:
\* no registry node, no route payload, no payload copy of an envelope.
C17_NothingRemainsAfterDeinit ==
    (last.op = "deinit" /\ last.ret = ESP_OK) =>
        /\ ~initialized
        /\ modules = <<>> /\ subs = <<>> /\ routes = <<>> /\ services = <<>>
        /\ heap.node = 0
        /\ heap.payload = 0

\* the bus state a call on an uninitialized bus must leave alone
BusState == <<busVars, regVars, queue, workerVars, memVars>>

\* C18: on a bus that is not initialized esp_bus_reg, esp_bus_unreg,
\* esp_bus_req, esp_bus_emit, esp_bus_on and esp_bus_off fail with
\* ESP_ERR_INVALID_ARG and esp_bus_deinit fails with ESP_ERR_INVALID_STATE,
\* and none of them changes the bus state.
C18_UninitializedCallsFail ==
    [][~initialized =>
          /\ esp_bus_reg(m_test) =>
                 last'.ret = ESP_ERR_INVALID_ARG /\ UNCHANGED BusState
          /\ esp_bus_unreg(s_m) =>
                 last'.ret = ESP_ERR_INVALID_ARG /\ UNCHANGED BusState
          /\ R_Call("t1", c_call, TRUE, TRUE) =>
                 /\ fin'["t1"].ret = ESP_ERR_INVALID_ARG
                 /\ cpc'["t1"] = "idle"
                 /\ UNCHANGED BusState
          /\ esp_bus_emit("t1", s_x1, s_evt, d_hi, TRUE) =>
                 fin'["t1"].ret = ESP_ERR_INVALID_ARG /\ UNCHANGED BusState
          /\ esp_bus_on(p_x_evt, p_m_echo, d_hi, TRUE) =>
                 last'.ret = ESP_ERR_INVALID_ARG /\ UNCHANGED BusState
          /\ esp_bus_off(p_x_evt, [ptr |-> TRUE, str |-> p_m_echo]) =>
                 last'.ret = ESP_ERR_INVALID_ARG /\ UNCHANGED BusState
          /\ esp_bus_deinit =>
                 last'.ret = ESP_ERR_INVALID_STATE /\ UNCHANGED BusState]_vars

\* the statement with the invalid-state error for every one of the calls
C18_UninitializedCallsFailInvalidState ==
    [][~initialized =>
          /\ (\/ esp_bus_reg(m_test)
              \/ esp_bus_unreg(s_m)
              \/ esp_bus_on(p_x_evt, p_m_echo, d_hi, TRUE)
              \/ esp_bus_off(p_x_evt, [ptr |-> TRUE, str |-> p_m_echo])
              \/ esp_bus_deinit) =>
                 last'.ret = ESP_ERR_INVALID_STATE /\ UNCHANGED BusState
          /\ (\/ R_Call("t1", c_call, TRUE, TRUE)
              \/ esp_bus_emit("t1", s_x1, s_evt, d_hi, TRUE)) =>
                 fin'["t1"].ret = ESP_ERR_INVALID_STATE /\ UNCHANGED BusState]_vars

\* after a deinit that left the bus uninitialized, a call has been refused
\* and a registration has just been refused too
C18_Witness ==
    /\ ~initialized
    /\ wpc = "none"
    /\ last.op = "reg"
    /\ last.ret = ESP_ERR_INVALID_ARG
    /\ "ret" \in DOMAIN fin["t1"]
    /\ fin["t1"].ret = ESP_ERR_INVALID_ARG
    /\ hlog # <<>>

(***************************************************************************)
(* The matcher on its own: a pattern and a target are drawn, and           *)
(* esp_bus_match_pattern is applied to them.                               *)
(***************************************************************************)
Alphabet == {"a", "b", "c", "*", "?", ".", ":"}

\* the strings of at most MaxLen characters
Strings == UNION {[1..n -> Alphabet] : n \in 0..MaxLen}

InitMatch ==
    /\ initialized = FALSE
    /\ strict = FALSE
    /\ on_err = NULL
    /\ task = NULL
    /\ mutex = NoMutex
    /\ modules = <<>>
    /\ subs = <<>>
    /\ routes = <<>>
    /\ services = <<>>
    /\ next_sub_id = 0
    /\ next_svc_id = 0
    /\ queue = <<>>
    /\ wpc = "none"
    /\ wmsg = [type |-> "none"]
    /\ werr = ESP_OK
    /\ last_service_tick = 0
    /\ now = 1
    /\ cpc = [t \in Threads |-> "idle"]
    /\ frame = [t \in Threads |-> [k |-> 0]]
    /\ ncalls = [t \in Threads |-> 0]
    /\ inv = [t \in Threads |-> [k \in 1..MaxCalls |-> [h |-> <<>>, how |-> "none"]]]
    /\ fin = [t \in Threads |-> [k |-> 0]]
    /\ hlog = <<>>
    /\ nlog = <<>>
    /\ errlog = <<>>
    /\ stale = {}
    /\ \E pattern \in Strings, target \in Strings :
           last = [op |-> "input", pattern |-> pattern, target |-> target]
    /\ heap = NoHeap
    /\ sweep = NoSweep

\* bool r = esp_bus_match_pattern(pattern, target)
match_pattern_call ==
    /\ last.op = "input"
    /\ last' = [op |-> "match_pattern", pattern |-> last.pattern,
                target |-> last.target,
                ret |-> esp_bus_match_pattern(last.pattern, last.target)]
    /\ UNCHANGED <<busVars, regVars, queue, workerVars, now, clientVars, logVars,
                   memVars>>

NextMatch == match_pattern_call

SpecMatch == InitMatch /\ [][NextMatch]_vars

p_long == Rep("e", ESP_BUS_PATTERN_MAX)

RoundModules ==
    {[name |-> n, on_req |-> "test_req_handler", on_evt |-> NULL, ctx |-> NoData]
     : n \in {s_a, s_long1}}

NextRound ==
    \/ ~initialized /\ esp_bus_init
    \/ \E m \in RoundModules : esp_bus_reg(m)
    \/ \E m \in RoundModules : esp_bus_unreg(m.name)
    \/ next_sub_id < MaxIds /\ esp_bus_sub(p_long, "test_evt_handler", NULL)
    \/ \E id \in 0..(MaxIds - 1) : esp_bus_unsub(id)
    \/ \E evt \in {p_x_evt, p_long} : esp_bus_on(evt, p_m_echo, d_hi, TRUE)
    \/ \E evt \in {p_x_evt, p_long} : esp_bus_off(evt, [ptr |-> TRUE, str |-> p_m_echo])
    \/ next_svc_id < MaxIds /\ esp_bus_every("test_svc_handler", 1, NULL)
    \/ \E id \in 0..(MaxIds - 1) : esp_bus_cancel(id)

SpecRound == Init /\ [][NextRound]_vars

\* C20: a new entry goes to the head of its registry, and removing what
\* was registered last, by the name, id or patterns it was registered
\* with, succeeds and gives back the registry and the allocation counts as
\* they were before the registration: the head entry is gone, nothing else
\* has changed.
C20_RegisterThenRemoveIsRoundTrip ==
    [][/\ Len(modules') > Len(modules) => Tail(modules') = modules
       /\ Len(subs') > Len(subs) => Tail(subs') = subs
       /\ Len(routes') > Len(routes) => Tail(routes') = routes
       /\ Len(services') > Len(services) => Tail(services') = services
       /\ (last.op = "reg" /\ last.ret = ESP_OK /\ esp_bus_unreg(last.m.name)) =>
             /\ last'.ret = ESP_OK
             /\ esp_bus_find_module(modules', last.m.name) = 0
             /\ modules' = Tail(modules)
             /\ heap' = [heap EXCEPT !.node = @ - 1]
       /\ (last.op = "sub" /\ last.id >= 0 /\ esp_bus_unsub(last.id)) =>
             /\ find_id(subs', last.id) = 0
             /\ subs' = Tail(subs)
             /\ heap' = [heap EXCEPT !.node = @ - 1]
       /\ (last.op = "on" /\ last.ret = ESP_OK /\ esp_bus_off(last.evt, last.req)) =>
             /\ routes' = Tail(routes)
             /\ heap' = [heap EXCEPT !.node = @ - 1,
                                     !.payload = @ - B2N(routes[1].req_data.ptr)]
       /\ (last.op = "add_service" /\ last.id >= 0 /\ esp_bus_cancel(last.id)) =>
             /\ find_id(services', last.id) = 0
             /\ services' = Tail(services)
             /\ heap' = [heap EXCEPT !.node = @ - 1]]_vars

(***************************************************************************)
(* Route removal: once a module, a subscription and a timer are            *)
(* registered, a client task adds static and transform routes for two      *)
(* event patterns and removes them with and without a request pattern,     *)
(* while the worker dispatches an event.                                   *)
(***************************************************************************)
NoReq == [ptr |-> FALSE, str |-> <<>>]

\* the arguments of esp_bus_off: ("x*:evt", NULL), ("x*:evt", "m.echo"),
\* ("x*:evt", ""), ("x1:*", NULL) and ("other", NULL)
Offs == {<<p_x_evt, NoReq>>, <<p_x_evt, [ptr |-> TRUE, str |-> p_m_echo]>>,
         <<p_x_evt, [ptr |-> TRUE, str |-> <<>>]>>, <<p_x1_any, NoReq>>,
         <<s_other, NoReq>>}

NextOff ==
    \/ ~initialized /\ esp_bus_init
    \/ modules = <<>> /\ esp_bus_reg(m_test)
    \/ modules # <<>> /\ next_sub_id = 0 /\ esp_bus_sub(p_x_evt, "test_evt_handler", NULL)
    \/ next_sub_id > 0 /\ next_svc_id = 0 /\ esp_bus_every("test_svc_handler", 1, NULL)
    \/ \E r \in Routes : next_svc_id > 0 /\ esp_bus_on(r.evt, r.req, r.data, TRUE)
    \/ next_svc_id > 0 /\ esp_bus_on_fn(p_x_evt, "caller_transform", n_fail0)
    \/ \E x \in Offs : esp_bus_off(x[1], x[2])
    \/ next_svc_id > 0 /\ ncalls["t1"] = 0
           /\ esp_bus_emit("t1", s_x1, s_evt, NoData, TRUE)
    \/ WorkerLoop
    \/ W_Event
    \/ W_Trigger

SpecOff == Init /\ [][NextOff]_vars

\* route r is one that esp_bus_off(evt, req) asks to remove
Hit(r, evt, req) == r.evt_pattern = evt /\ (req.ptr => r.req_pattern = req.str)

\* the route nodes a and b have the same contents
SameRoute(a, b) ==
    /\ a.evt_pattern = b.evt_pattern
    /\ a.req_pattern = b.req_pattern
    /\ a.req_data = b.req_data
    /\ a.transform = b.transform
    /\ a.transform # NULL => a.ctx = b.ctx

\* C21: esp_bus_off(evt, req) on an initialized bus removes the routes whose
\* stored event pattern equals evt and, when req is given, whose stored
\* request pattern equals req - with req NULL every route for evt, static or
\* transform - and frees each removed node and its payload copy; the other
\* routes stay, in their order, modules, subscriptions, timers, id counters,
\* queue and worker are unchanged, and the call returns ESP_OK whether or
\* not a route matched.  (A call that repeats the arguments of the call
\* before it finds nothing left to remove and changes nothing at all.)
C21_OffRemovesExactlyTheMatchingRoutes ==
    [][(initialized /\ last' # last /\ last'.op = "off") =>
          LET e == last'.evt
              q == last'.req
          IN /\ LET keep == SelectSeq(routes, LAMBDA r : ~Hit(r, e, q))
                IN  /\ Len(routes') = Len(keep)
                    /\ \A i \in 1..Len(keep) : SameRoute(routes'[i], keep[i])
             /\ \A i \in 1..Len(routes') : ~Hit(routes'[i], e, q)
             /\ heap'.node = heap.node - Count(routes, LAMBDA r : Hit(r, e, q))
             /\ heap'.payload = heap.payload
                                - Count(routes, LAMBDA r : Hit(r, e, q) /\ r.req_data.ptr)
             /\ last'.ret = ESP_OK
             /\ UNCHANGED <<busVars, modules, subs, services, next_sub_id, next_svc_id,
                            queue, workerVars, hlog, errlog>>]_vars

\* the static route with a payload and the transform route for "x*:evt"
\* have both fired; esp_bus_off("x*:evt", NULL) has returned ESP_OK, no route
\* and no payload copy is left, and the module, the subscription and the
\* timer are still registered
C21_Witness ==
    /\ last.op = "off"
    /\ last.ret = ESP_OK
    /\ last.evt = p_x_evt
    /\ ~last.req.ptr
    /\ routes = <<>>
    /\ heap.node = 3
    /\ heap.payload = 0
    /\ Len(modules) = 1 /\ Len(subs) = 1 /\ Len(services) = 1
    /\ \E i, j \in 1..Len(hlog) : /\ hlog[i].fn = "test_req_handler"
                                  /\ hlog[j].fn = "caller_transform"

(***************************************************************************)
(* Resolution failures: with module m (a handler) and module a (no         *)
(* handler) registered, a client task sets and clears the error callback   *)
(* and sends requests whose pattern is a bare token, an event key, or      *)
(* addresses module a.                                                     *)
(***************************************************************************)
m_bare == [name |-> s_a, on_req |-> NULL, on_evt |-> NULL, ctx |-> NoData]

\* esp_bus_req("m", ...), esp_bus_req("m:echo", ...), esp_bus_req("a.go", ...)
\* and esp_bus_req("m.echo", ...), each with timeout_ms 1 and 0
ErrCalls ==
    {[pattern |-> x, req |-> d_hi, res |-> Buf4, timeout |-> ms]
     : x \in {s_m, s_m \o <<":">> \o a_echo, s_a \o <<".", "g", "o">>, p_m_echo},
       ms \in {0, 1}}

NextErr ==
    \/ ~initialized /\ esp_bus_init
    \/ modules = <<>> /\ esp_bus_reg(m_test)
    \/ Len(modules) = 1 /\ esp_bus_reg(m_bare)
    \/ \E cb \in {"err_cb", NULL} : initialized /\ cb # on_err /\ esp_bus_on_err(cb)
    \/ \E c \in ErrCalls : Len(modules) = 2 /\ R_Call("t1", c, TRUE, TRUE)
    \/ R_Take("t1")
    \/ R_TakeTimeout("t1")
    \/ R_Return("t1")
    \/ Worker

SpecErr == Init /\ [][NextErr]_vars

\* the pattern has no '.'
NoDot(pattern) == \A i \in 1..Len(pattern) : pattern[i] # "."

\* the text before the first '.' of the pattern names a registered module
\* that has no request handler
NoHandler(pattern) ==
    \E i \in 1..Len(pattern), j \in 1..Len(modules) :
        /\ pattern[i] = "."
        /\ NoDot(SubSeq(pattern, 1, i - 1))
        /\ modules[j].name = SubSeq(pattern, 1, i - 1)
        /\ \A k \in 1..(j - 1) : modules[k].name # modules[j].name
        /\ modules[j].on_req = NULL

\* what the error callback receives for a failure err of the envelope in
\* hand: one call with the pattern and err when a callback is registered
Reported(err) ==
    errlog' = IF on_err # NULL
              THEN Append(errlog, [pattern |-> wmsg.pattern, err |-> err])
              ELSE errlog

\* C22: when the worker resolves a request whose pattern has no '.', the
\* result is ESP_ERR_INVALID_ARG, and when the pattern addresses a registered
\* module without a request handler, the result is ESP_ERR_NOT_SUPPORTED; in
\* both cases no handler is invoked, registries, queue and allocations of
\* nodes are unchanged, nothing is written to the caller's response buffer,
\* and the registered error callback is called once with the pattern and the
\* error.
C22_ResolutionFailuresAreReported ==
    [][(wpc = "proc" /\ wmsg.type = "MSG_REQ" /\ wpc' # "proc"
        /\ (NoDot(wmsg.pattern) \/ NoHandler(wmsg.pattern))) =>
          /\ werr' = IF NoDot(wmsg.pattern) THEN ESP_ERR_INVALID_ARG
                     ELSE ESP_ERR_NOT_SUPPORTED
          /\ Reported(werr')
          /\ hlog' = hlog
          /\ heap'.node = heap.node
          /\ UNCHANGED <<busVars, regVars, queue, frame>>]_vars

\* with the callback registered, esp_bus_req("m:echo", ..., 1) has returned
\* ESP_ERR_INVALID_ARG and esp_bus_req("a.go", ..., 1) ESP_ERR_NOT_SUPPORTED
\* to the client; the callback has been called once for each, and no handler
\* has run
C22_Witness ==
    /\ on_err = "err_cb"
    /\ ncalls["t1"] = 2
    /\ cpc["t1"] = "idle"
    /\ fin["t1"].how = "taken"
    /\ fin["t1"].c.pattern = s_a \o <<".", "g", "o">>
    /\ fin["t1"].ret = ESP_ERR_NOT_SUPPORTED
    /\ errlog = <<[pattern |-> s_m \o <<":">> \o a_echo, err |-> ESP_ERR_INVALID_ARG],
                  [pattern |-> s_a \o <<".", "g", "o">>, err |-> ESP_ERR_NOT_SUPPORTED]>>
    /\ hlog = <<>>

(***************************************************************************)
(* Handler failures: with the error callback registered, a client task     *)
(* sends "m.fail" without waiting and another emits x1:evt, which the      *)
(* route "x*:evt" -> "m.fail" turns into a request.                        *)
(***************************************************************************)
NextFail ==
    \/ ~initialized /\ esp_bus_init
    \/ initialized /\ on_err = NULL /\ esp_bus_on_err("err_cb")
    \/ on_err # NULL /\ modules = <<>> /\ esp_bus_reg(m_test)
    \/ modules # <<>> /\ routes = <<>> /\ esp_bus_on(p_x_evt, p_m_fail, NoData, TRUE)
    \/ routes # <<>> /\ R_Call("t1", c_call, TRUE, TRUE)
    \/ routes # <<>> /\ esp_bus_emit("t2", s_x1, s_evt, NoData, TRUE)
    \/ esp_bus_off(p_x_evt, NoReq)
    \/ R_Return("t1")
    \/ WorkerLoop
    \/ W_Request
    \/ W_Event

SpecFail == Init /\ [][NextFail]_vars

\* the request handler calls of this step that returned a failure
NewFailures ==
    SelectSeq(NewCalls, LAMBDA e : /\ e.fn \in {"test_req_handler", "caller_req_handler"}
                                   /\ e.err # ESP_OK)

\* C23: when the worker processes a request envelope that carries no result
\* pointer (timeout 0) or an event envelope, with an error callback
\* registered, every request handler call of that step that returns a
\* failure is followed by one call of the error callback with the request
\* pattern and the handler's error; the handler is called once per envelope
\* or matching route, and the worker moves on to the next envelope.
C23_HandlerFailuresAreReported ==
    [][(wpc = "proc" /\ wpc' # "proc" /\ on_err # NULL
        /\ (wmsg.type = "MSG_EVT" \/ (wmsg.type = "MSG_REQ" /\ ~wmsg.result))) =>
          /\ Len(errlog') = Len(errlog) + Len(NewFailures)
          /\ \A i \in 1..Len(NewFailures) :
                 /\ errlog'[Len(errlog) + i].err = NewFailures[i].err
                 /\ errlog'[Len(errlog) + i].pattern
                        = NewFailures[i].mod \o <<".">> \o NewFailures[i].action
          /\ wpc' = "drain"]_vars

\* what does hold of such a step: the handler is called once for a request
\* envelope and once per matching route, nothing is put back in the queue,
\* and the worker goes on to take the next envelope
C23_FailuresDoNotStopTheWorker ==
    [][(wpc = "proc" /\ wpc' # "proc"
        /\ (wmsg.type = "MSG_EVT" \/ (wmsg.type = "MSG_REQ" /\ ~wmsg.result))) =>
          /\ wpc' = "drain"
          /\ queue' = queue
          /\ Len(NewFailures)
                 = IF wmsg.type = "MSG_REQ"
                   THEN B2N(wmsg.pattern = p_m_fail)
                   ELSE Count(routes, LAMBDA r : r.req_pattern = p_m_fail)]_vars

(***************************************************************************)
(* esp_bus_call in strict mode: a client task switches strict mode on and  *)
(* off and calls a module that is not registered, without waiting.         *)
(***************************************************************************)
\* esp_bus_call("u.go")
c_unknown0 == [c_unknown EXCEPT !.timeout = 0]

NextCall ==
    \/ ~initialized /\ esp_bus_init
    \/ modules = <<>> /\ esp_bus_reg(m_test)
    \/ modules # <<>> /\ on_err = NULL /\ esp_bus_on_err("err_cb")
    \/ \E enable \in BOOLEAN : enable # strict /\ esp_bus_strict(enable)
    \/ on_err # NULL /\ R_Call("t1", c_unknown0, TRUE, TRUE)
    \/ R_Return("t1")
    \/ WorkerLoop
    \/ W_Request

SpecCall == Init /\ [][NextCall]_vars

\* C24: an esp_bus_call made on an initialized bus while strict mode is on,
\* for a pattern whose module is not registered, returns ESP_ERR_NOT_FOUND.
C24_StrictCallReturnsNotFound ==
    \A t \in Threads :
        ("ret" \in DOMAIN fin[t] /\ fin[t].c.timeout = 0 /\ fin[t].strict0
            /\ Unregistered(fin[t].c.pattern)) =>
        fin[t].ret = ESP_ERR_NOT_FOUND

(***************************************************************************)
(* The mutex: the public operations of task t1 on the timer registry with  *)
(* their xSemaphoreTake and xSemaphoreGive as steps of their own, next to  *)
(* the worker's due pass and to esp_bus_deinit on task t2, which take no   *)
(* lock.                                                                   *)
(***************************************************************************)
\* xSemaphoreTake(g_bus.mutex, portMAX_DELAY) on task t returns
xSemaphoreTake(t) ==
    /\ initialized
    /\ mutex.holder = NULL
    /\ cpc[t] = "idle"
    /\ mutex' = [mutex EXCEPT !.holder = t]
    /\ cpc' = [cpc EXCEPT ![t] = "locked"]
    /\ UNCHANGED <<initialized, strict, on_err, task, regVars, queue, workerVars, now,
                   frame, ncalls, inv, fin, logVars, last, memVars>>

\* a variant of xSemaphoreGive that returns without releasing the mutex
xSemaphoreGive_kept(t) ==
    /\ mutex.holder = t
    /\ cpc[t] = "locked"
    /\ cpc' = [cpc EXCEPT ![t] = "idle"]
    /\ UNCHANGED <<busVars, regVars, queue, workerVars, now, frame, ncalls, inv, fin,
                   logVars, last, memVars>>

\* xSemaphoreGive(g_bus.mutex) on task t
xSemaphoreGive(t) ==
    /\ mutex.holder = t
    /\ cpc[t] = "locked"
    /\ mutex' = [mutex EXCEPT !.holder = NULL]
    /\ cpc' = [cpc EXCEPT ![t] = "idle"]
    /\ UNCHANGED <<initialized, strict, on_err, task, regVars, queue, workerVars, now,
                   frame, ncalls, inv, fin, logVars, last, memVars>>

\* task t is between the xSemaphoreTake and the xSemaphoreGive of a public
\* operation
Holds(t) == mutex.created /\ mutex.holder = t

NextLock ==
    \/ ~initialized /\ last.op = "none" /\ esp_bus_init
    \/ xSemaphoreTake("t1")
    \/ xSemaphoreGive("t1")
    \/ \E repeat \in BOOLEAN :
           Holds("t1") /\ next_svc_id < MaxIds
               /\ add_service("test_svc_handler", 1, NULL, repeat)
    \/ \E id \in 0..(MaxIds - 1) : Holds("t1") /\ remove_service(id)
    \/ esp_bus_deinit
    \/ Tick
    \/ W_Receive
    \/ W_Timeout
    \/ W_Drain
    \/ W_Trigger
    \/ S_Begin
    \/ S_Visit
    \/ S_Return
    \/ S_Clean

SpecLock == Init /\ [][NextLock]_vars

\* the task that takes the step: the worker when its position or its pass
\* moves, t2 for esp_bus_deinit, else t1
Actor ==
    IF initialized /\ ~initialized' THEN "t2"
    ELSE IF wpc' # wpc \/ (sweep' # sweep /\ last' = last) THEN task
    ELSE "t1"

\* C25: every step that changes a registry or an id counter - a node added,
\* removed or freed, a timer re-armed or marked expired - is taken by the
\* task that holds g_bus.mutex at that moment.
C25_RegistryEditsHoldTheMutex ==
    [][regVars' # regVars => Holds(Actor)]_vars

\* the edits of the public operations do hold the mutex
C25_PublicEditsHoldTheMutex ==
    [][(regVars' # regVars /\ Actor = "t1") => Holds("t1")]_vars

\* the due pass unlinks and frees an expired one-shot timer while task t1
\* holds the mutex inside a public operation
C25_Race ==
    [][~(Holds("t1") /\ wpc = "sweep" /\ sweep.phase = "clean"
         /\ Len(services') < Len(services))]_vars

(***************************************************************************)
(* The mutex and the callbacks: a client task configures the bus, each     *)
(* operation between its xSemaphoreTake and its xSemaphoreGive, and calls  *)
(* esp_bus_req; a second task emits; a subscriber on the worker calls a    *)
(* configuration operation from inside its callback.                       *)
(***************************************************************************)
EditOps == {"reg", "unreg", "sub", "unsub", "on", "off", "tick", "after", "cancel"}

p_y1_any == <<"y", "1", ":", "*">>

\* the worker stands before the call of a subscriber that takes the mutex
CallsEditor ==
    /\ wpc = "disp"
    /\ sweep.phase = "evt_visit"
    /\ sweep.s # -1
    /\ find_id(subs, sweep.s) # 0
    /\ subs[find_id(subs, sweep.s)].handler = "editing_evt_handler"
    /\ esp_bus_match_pattern(subs[find_id(subs, sweep.s)].pattern, wmsg.pattern)

NextHold ==
    \/ ~initialized /\ last.op = "none" /\ esp_bus_init
    \/ xSemaphoreTake("t1")
    \/ xSemaphoreGive("t1")
    \/ Holds("t1") /\ last.op = "init" /\ esp_bus_reg(m_test)
    \/ \E op \in EditOps :
           Holds("t1") /\ last.op = "reg"
               /\ esp_bus_sub(p_x1_any, "editing_evt_handler", op)
    \/ Holds("t1") /\ last.op = "sub" /\ next_sub_id = 1
           /\ esp_bus_sub(p_x1_any, "test_evt_handler", NULL)
    \/ Holds("t1") /\ last.op = "sub" /\ esp_bus_after("test_svc_handler", 1, NULL)
    \/ Holds("t1") /\ last.op = "add_service" /\ esp_bus_on(p_y1_any, p_m_echo, NoData, TRUE)
    \/ last.op = "on" /\ ncalls["t1"] = 0 /\ R_Call("t1", c_echo, TRUE, TRUE)
    \/ R_SendOk("t1")
    \/ R_SendTimeout("t1")
    \/ R_Take("t1")
    \/ R_TakeTimeout("t1")
    \/ R_Return("t1")
    \/ last.op = "on" /\ esp_bus_emit("t2", s_x1, s_evt, NoData, TRUE)
    \/ Worker
    \/ W_Trigger
    \/ E_Begin
    \/ (CallsEditor => mutex.holder = NULL) /\ E_Visit
    \/ E_Return

SpecHold == Init /\ [][NextHold]_vars

\* C26: whoever holds the bus mutex is a client task inside a configuration
\* operation: never the worker, on which the callbacks run, and never a
\* caller blocked on the queue or on the handoff signal; the holder can
\* always give the mutex back, so a callback on the worker that calls a
\* configuration operation waits for no task that waits for the worker.
C26_MutexIsNotHeldAcrossCallbacksOrWaits ==
    \A t \in Threads \cup {task} :
        Holds(t) =>
            /\ t # task
            /\ cpc[t] \notin {"sendwait", "wait"}
            /\ ENABLED xSemaphoreGive(t)

\* the editing subscriber has run once, and the worker stands before its
\* next call while the client holds the mutex
C26_Witness ==
    /\ \E n \in 1..Len(hlog) : hlog[n].fn = "editing_evt_handler"
    /\ CallsEditor
    /\ Holds("t1")

(***************************************************************************)
(* Payload copies: a client task sends requests with a payload, a second   *)
(* task emits events with and without one, malloc may fail and the queue   *)
(* may be full; a static route carries a payload copy of its own.          *)
(***************************************************************************)
\* esp_bus_req("m.echo", "hi", 2, buf, 4, &len, 0)
c_echo0 == [c_echo EXCEPT !.timeout = 0]

NextPay ==
    \/ ~initialized /\ last.op = "none" /\ esp_bus_init
    \/ last.op = "init" /\ esp_bus_reg(m_test)
    \/ last.op = "reg" /\ esp_bus_sub(p_x1_any, "test_evt_handler", NULL)
    \/ last.op = "sub" /\ esp_bus_on(p_x_evt, p_m_echo, [ptr |-> TRUE, bytes |-> <<"h", "i">>], TRUE)
    \/ \E c \in {c_echo, c_echo0}, can_copy \in BOOLEAN :
           last.op = "on" /\ R_Call("t1", c, can_copy, TRUE)
    \/ \E data \in EmitData, can_copy \in BOOLEAN :
           last.op = "on" /\ esp_bus_emit("t2", s_x1, s_evt, data, can_copy)
    \/ R_SendOk("t1")
    \/ R_SendTimeout("t1")
    \/ R_Take("t1")
    \/ R_TakeTimeout("t1")
    \/ R_Return("t1")
    \/ Worker
    \/ W_Event

SpecPay == Init /\ [][NextPay]_vars

\* the payload copies that are referenced: by an envelope in the queue, by
\* the envelope the worker is processing, by a caller waiting for room in
\* the queue, and by the static routes
LiveCopies ==
    Count(queue, LAMBDA msg : msg.type # "MSG_TRIGGER" /\ msg.data.ptr)
    + B2N(wpc \in {"proc", "result", "give", "disp"}
          /\ wmsg.type \in {"MSG_REQ", "MSG_EVT"} /\ wmsg.data.ptr)
    + B2N(cpc["t1"] = "sendwait" /\ frame["t1"].c.req.ptr)
    + B2N(cpc["t2"] = "sendwait" /\ frame["t2"].c.req.ptr)
    + Count(routes, LAMBDA r : r.req_data.ptr)

\* C27: while the bus stays initialized each payload copy made by
\* esp_bus_emit or esp_bus_req is freed exactly once: the allocated copies
\* are at every moment exactly those an envelope, a waiting caller or a
\* route refers to; one is freed only by the worker when it has finished
\* the envelope that carries it, after the handlers have read it, or by
\* the call whose xQueueSend failed; and a call that fails at once leaves
\* no copy behind.
C27_PayloadCopiesAreFreedOnce ==
    [][/\ heap'.payload = LiveCopies'
       /\ heap'.payload < heap.payload =>
             /\ heap'.payload = heap.payload - 1
             /\ \/ /\ wpc \in {"proc", "result", "give"}
                   /\ wpc' = "drain"
                   /\ wmsg.data.ptr
                \/ \E t \in Threads :
                       /\ cpc[t] = "sendwait"
                       /\ fin'[t].ret = ESP_ERR_TIMEOUT
                       /\ queue' = queue
       /\ \A t \in Threads :
             (fin'[t] # fin[t] /\ cpc[t] = "idle"
                /\ fin'[t].ret \in {ESP_ERR_TIMEOUT, ESP_ERR_NO_MEM}) =>
                 UNCHANGED <<heap, queue>>
       /\ (Len(hlog') > Len(hlog) /\ wpc = "proc") =>
             heap.payload >= B2N(wmsg.data.ptr) + Count(routes, LAMBDA r : r.req_data.ptr)]_vars

\* an emit with a payload has failed on the full queue, every envelope has
\* been processed, a subscriber has read a payload, and only the route's
\* copy is left
C27_Witness ==
    /\ "ret" \in DOMAIN fin["t2"]
    /\ fin["t2"].ret = ESP_ERR_TIMEOUT
    /\ \E n \in 1..Len(hlog) : hlog[n].fn = "test_evt_handler" /\ hlog[n].data.ptr
    /\ queue = <<>>
    /\ wpc = "idle"
    /\ cpc["t1"] = "idle"
    /\ ncalls["t1"] > 0
    /\ heap.payload = 1

(***************************************************************************)
(* The parser on its own: a pattern is drawn and esp_bus_parse_pattern is  *)
(* applied to it.                                                          *)
(***************************************************************************)
\* patterns with a segment at or over the bounds of the name buffers
LongPatterns ==
    {s_fit, s_long1, s_long2,
     s_fit \o <<".", "a">>, s_long1 \o <<".", "a">>, s_long1 \o <<":", "a">>,
     <<"m", ".">> \o s_fit, <<"m", ".">> \o s_long2, <<"m", ":">> \o s_long2}

ParseInputs == Strings \cup LongPatterns

InitParse ==
    /\ initialized = FALSE
    /\ strict = FALSE
    /\ on_err = NULL
    /\ task = NULL
    /\ mutex = NoMutex
    /\ modules = <<>>
    /\ subs = <<>>
    /\ routes = <<>>
    /\ services = <<>>
    /\ next_sub_id = 0
    /\ next_svc_id = 0
    /\ queue = <<>>
    /\ wpc = "none"
    /\ wmsg = [type |-> "none"]
    /\ werr = ESP_OK
    /\ last_service_tick = 0
    /\ now = 1
    /\ cpc = [t \in Threads |-> "idle"]
    /\ frame = [t \in Threads |-> [k |-> 0]]
    /\ ncalls = [t \in Threads |-> 0]
    /\ inv = [t \in Threads |-> [k \in 1..MaxCalls |-> [h |-> <<>>, how |-> "none"]]]
    /\ fin = [t \in Threads |-> [k |-> 0]]
    /\ hlog = <<>>
    /\ nlog = <<>>
    /\ errlog = <<>>
    /\ stale = {}
    /\ \E pattern \in ParseInputs : last = [op |-> "input", pattern |-> pattern]
    /\ heap = NoHeap
    /\ sweep = NoSweep

\* bool ok = esp_bus_parse_pattern(pattern, module, action, &sep)
parse_pattern_call ==
    /\ last.op = "input"
    /\ last' = [op |-> "parse_pattern", pattern |-> last.pattern,
                ret |-> esp_bus_parse_pattern(last.pattern)]
    /\ UNCHANGED <<busVars, regVars, queue, workerVars, now, clientVars, logVars,
                   memVars>>

NextParse == parse_pattern_call

SpecParse == InitParse /\ [][NextParse]_vars

\* the position of the first '.' or ':' of s, whichever comes first; 0 when
\* s has neither
FirstSep(s) ==
    IF \E i \in 1..Len(s) : s[i] \in {".", ":"}
    THEN CHOOSE i \in 1..Len(s) :
            s[i] \in {".", ":"} /\ \A j \in 1..(i - 1) : s[j] \notin {".", ":"}
    ELSE 0

\* C28: esp_bus_parse_pattern splits the pattern at its first '.' or ':',
\* whichever comes first, and reports that character as the separator, the
\* text before it as the module and the text after it as the action; a
\* pattern with neither gives the whole token as the module and an empty
\* action; the parse fails whenever a segment does not fit the name buffer.
C28_ParseSplitsAtFirstSeparator ==
    last.op = "parse_pattern" =>
        LET s == last.pattern
            at == FirstSep(s)
            before == IF at = 0 THEN s ELSE SubSeq(s, 1, at - 1)
            after == IF at = 0 THEN <<>> ELSE SubSeq(s, at + 1, Len(s))
            fits == Len(before) < ESP_BUS_NAME_MAX /\ Len(after) < ESP_BUS_NAME_MAX
        IN  /\ last.ret.ok = fits
            /\ fits => /\ last.ret.module = before
                       /\ last.ret.action = after
                       /\ last.ret.sep = (IF at = 0 THEN NUL ELSE s[at])

\* what the parser does: it splits at the first '.' if there is one, else
\* at the first ':'; it fails only when the text before the separator does
\* not fit; the text after it, and a bare token, are cut to the buffer
C28_ParsePrefersDot ==
    last.op = "parse_pattern" =>
        LET s == last.pattern
            at == IF strchr(s, ".") # 0 THEN strchr(s, ".") ELSE strchr(s, ":")
        IN  /\ last.ret.ok = (at = 0 \/ at - 1 < ESP_BUS_NAME_MAX)
            /\ last.ret.ok =>
                  /\ last.ret.module =
                        (IF at = 0 THEN strncpy(s, ESP_BUS_NAME_MAX - 1)
                         ELSE SubSeq(s, 1, at - 1))
                  /\ last.ret.action =
                        (IF at = 0 THEN <<>>
                         ELSE strncpy(SubSeq(s, at + 1, Len(s)), ESP_BUS_NAME_MAX - 1))
                  /\ last.ret.sep = (IF at = 0 THEN NUL ELSE s[at])

(***************************************************************************)
(* Event keys: a client task emits events whose source and event names fit *)
(* the name buffers and may contain '.' or ':'; the worker dispatches.     *)
(***************************************************************************)
\* esp_bus_emit("x1", "evt"), ("x1", "a.b"), ("x.1", "evt"), ("x:1", "evt"),
\* ("x1", "a:b"), and two pairs of names of ESP_BUS_NAME_MAX - 1 characters
KeyEmits ==
    {<<s_x1, s_evt>>,
     <<s_x1, <<"a", ".", "b">>>>,
     <<<<"x", ".", "1">>, s_evt>>,
     <<<<"x", ":", "1">>, s_evt>>,
     <<s_x1, <<"a", ":", "b">>>>,
     <<s_fit, s_fit>>,
     <<<<"x", ":">> \o Rep("a", ESP_BUS_NAME_MAX - 3), s_fit>>}

NextKey ==
    \/ ~initialized /\ last.op = "none" /\ esp_bus_init
    \/ last.op = "init" /\ esp_bus_sub(<<"*">>, "test_evt_handler", NULL)
    \/ last.op = "sub" /\ next_sub_id = 1
           /\ esp_bus_sub(<<"x", "*">>, "test_evt_handler", NULL)
    \/ \E e \in KeyEmits :
           next_sub_id = 2 /\ esp_bus_emit("t1", e[1], e[2], NoData, TRUE)
    \/ WorkerLoop
    \/ W_Event

SpecKey == Init /\ [][NextKey]_vars

\* C29: an event that esp_bus_emit accepted is dispatched under the key it
\* was emitted with, also when the names contain '.' or ':': when the worker
\* has processed its envelope, every subscription whose pattern matches the
\* key "src:evt" composed at emit has been called once, with that key, and
\* no other subscription has been called.
C29_AcceptedEventsAreDispatchedUnderTheirKey ==
    [][(wpc = "proc" /\ wmsg.type = "MSG_EVT" /\ wpc' # "proc") =>
          /\ \A i \in 1..Len(subs) :
                Fired(NewCalls, subs[i])
                    = B2N(esp_bus_match_pattern(subs[i].pattern, wmsg.pattern))
          /\ \A n \in 1..Len(NewCalls) : NewCalls[n].key = wmsg.pattern]_vars

\* what holds: an event whose key has no '.' and whose text after the first
\* ':' fits the name buffer is dispatched under its key
C29_PlainKeysAreDispatched ==
    [][(/\ wpc = "proc" /\ wmsg.type = "MSG_EVT" /\ wpc' # "proc"
        /\ strchr(wmsg.pattern, ".") = 0
        /\ Len(wmsg.pattern) - strchr(wmsg.pattern, ":") < ESP_BUS_NAME_MAX) =>
          /\ \A i \in 1..Len(subs) :
                Fired(NewCalls, subs[i])
                    = B2N(esp_bus_match_pattern(subs[i].pattern, wmsg.pattern))
          /\ \A n \in 1..Len(NewCalls) : NewCalls[n].key = wmsg.pattern]_vars

\* the accepted event "x1:a.b" has been processed and no subscriber was
\* called
C29_Dropped ==
    ~(/\ wpc = "drain"
      /\ wmsg.type = "MSG_EVT"
      /\ wmsg.pattern = <<"x", "1", ":", "a", ".", "b">>
      /\ hlog = <<>>)

(***************************************************************************)
(* Events emitted by callbacks: a subscriber, a request handler, a route   *)
(* transform and a timer callback emit "y1:evt" on the worker, as btn_tick *)
(* of esp_bus_btn.c does; a static route sends "m.echo" for "x1:*".        *)
(***************************************************************************)
e_y1 == <<s_y1, s_evt>>

m_emit == [name |-> s_f, on_req |-> "emitting_req_handler", on_evt |-> NULL, ctx |-> e_y1]

EmitFns == {"emitting_evt_handler", "emitting_req_handler", "emitting_transform",
            "emitting_svc_fn"}

NextEnq ==
    \/ ~initialized /\ last.op = "none" /\ esp_bus_init
    \/ last.op = "init" /\ esp_bus_reg(m_test)
    \/ last.op = "reg" /\ Len(modules) = 1 /\ esp_bus_reg(m_emit)
    \/ last.op = "reg" /\ Len(modules) = 2
           /\ esp_bus_sub(p_x1_any, "emitting_evt_handler", e_y1)
    \/ last.op = "sub" /\ next_sub_id = 1
           /\ esp_bus_sub(p_y1_any, "test_evt_handler", NULL)
    \/ last.op = "sub" /\ next_sub_id = 2 /\ esp_bus_on(p_x1_any, p_m_echo, NoData, TRUE)
    \/ last.op = "on" /\ esp_bus_on_fn(p_x1_any, "emitting_transform", e_y1)
    \/ last.op = "on_fn" /\ esp_bus_after("emitting_svc_fn", 1, e_y1)
    \/ last.op = "add_service" /\ ncalls["t1"] = 0 /\ R_Call("t1", c_fwd, TRUE, TRUE)
    \/ R_SendOk("t1")
    \/ R_SendTimeout("t1")
    \/ R_Take("t1")
    \/ R_TakeTimeout("t1")
    \/ R_Return("t1")
    \/ last.op = "add_service" /\ ncalls["t2"] = 0
           /\ esp_bus_emit("t2", s_x1, s_evt, NoData, TRUE)
    \/ last.op = "add_service" /\ now < 2 /\ Tick
    \/ Worker
    \/ W_Event
    \/ W_Trigger

SpecEnq == Init /\ [][NextEnq]_vars

\* C30: esp_bus_emit called by a callback on the worker only enqueues: the
\* envelope is appended behind the queued ones (or refused when the queue
\* is full) and no subscriber of the nested event runs in that step; its
\* subscribers run when the worker processes that envelope, taken from the
\* head of the queue; whereas the handler of a request that a route issues
\* has run when the dispatch of the triggering event ends, before the
\* worker takes the next envelope.
C30_NestedEmitOnlyEnqueues ==
    [][LET emitted == Count(NewCalls, LAMBDA c : c.fn \in EmitFns)
           nested == event_key(s_y1, s_evt)
       IN  /\ emitted > 0 =>
                 /\ Len(queue') = Min(Len(queue) + emitted, BUS_QUEUE_SIZE)
                 /\ SubSeq(queue', 1, Len(queue)) = queue
                 /\ \A i \in (Len(queue) + 1)..Len(queue') :
                       queue'[i].type = "MSG_EVT" /\ queue'[i].pattern = nested
                 /\ \A n \in 1..Len(NewCalls) : NewCalls[n].fn # "test_evt_handler"
           /\ (\E n \in 1..Len(NewCalls) : NewCalls[n].fn = "test_evt_handler") =>
                 /\ wpc = "proc"
                 /\ wmsg.type = "MSG_EVT"
                 /\ wmsg.pattern = nested
           /\ Len(queue') < Len(queue) =>
                 wmsg' = Head(queue) /\ queue' = Tail(queue)
           /\ (/\ wpc = "proc" /\ wmsg.type = "MSG_EVT" /\ wpc' # "proc"
               /\ wmsg.pattern = event_key(s_x1, s_evt)
               /\ \E i \in 1..Len(routes) : routes[i].transform = NULL
               /\ esp_bus_find_module(modules, s_m) # 0) =>
                 /\ \E n \in 1..Len(NewCalls) :
                       /\ NewCalls[n].fn = "test_req_handler"
                       /\ NewCalls[n].action = a_echo
                 /\ wmsg' = wmsg
                 /\ wpc' = "drain"]_vars

\* the emitting subscriber has run, then the routed request's handler, and
\* later the subscriber of the nested event
C30_Witness ==
    \E n1, n2, n3 \in 1..Len(hlog) :
        /\ n1 < n2 /\ n2 < n3
        /\ hlog[n1].fn = "emitting_evt_handler"
        /\ hlog[n2].fn = "test_req_handler"
        /\ hlog[n3].fn = "test_evt_handler"
        /\ hlog[n3].key = event_key(s_y1, s_evt)

(***************************************************************************)
(* The worker's cycle: a client task arms a timer and emits events while   *)
(* time passes; the worker receives, drains and runs the due pass.         *)
(***************************************************************************)
NextCycle ==
    \/ ~initialized /\ last.op = "none" /\ esp_bus_init
    \/ last.op = "init" /\ esp_bus_sub(p_x1_any, "test_evt_handler", NULL)
    \/ \E repeat \in BOOLEAN :
           last.op = "sub" /\ add_service("test_svc_handler", 1, NULL, repeat)
    \/ last.op = "add_service" /\ esp_bus_emit("t1", s_x1, s_evt, NoData, TRUE)
    \/ last.op = "add_service" /\ Tick
    \/ WorkerLoop
    \/ W_Event
    \/ W_Trigger

SpecCycle == Init /\ [][NextCycle]_vars

\* C31: the due pass runs only after the worker has seen the queue empty: a
\* timer callback runs only in the tail of the loop, which is entered only
\* from a receive that timed out or from a drain that found the queue
\* empty; while the queue holds an envelope the drain takes its head and
\* calls nothing, and the processing of an envelope leads back to the drain.
C31_DuePassFollowsAnEmptyQueue ==
    [][/\ (\E n \in 1..Len(NewCalls) : NewCalls[n].fn \in SvcFns) => wpc = "svc"
       /\ (wpc' = "svc" /\ wpc # "svc") => queue = <<>> /\ wpc \in {"idle", "drain"}
       /\ (wpc = "drain" /\ queue # <<>> /\ wpc' # wpc) =>
             wpc' = "proc" /\ wmsg' = Head(queue) /\ hlog' = hlog
       /\ (wpc = "proc" /\ wpc' # wpc) => wpc' = "drain"]_vars

\* two events were processed in one cycle while the timer was due, and the
\* worker now stands before the due pass
C31_Witness ==
    /\ wpc = "svc"
    /\ Len(hlog) = 2
    /\ hlog[1].fn = "test_evt_handler"
    /\ hlog[2].fn = "test_evt_handler"
    /\ now # last_service_tick
    /\ services # <<>>
    /\ services[1].next_run_us <= esp_bus_now_us

(***************************************************************************)
(* A stalled worker: a client task arms one-shot and repeating timers of 1 *)
(* and 2 ms; time passes, possibly several intervals, before the worker    *)
(* runs its due pass.                                                      *)
(***************************************************************************)
Intervals == {1, 2}

NextStall ==
    \/ ~initialized /\ last.op = "none" /\ esp_bus_init
    \/ \E interval_ms \in Intervals, repeat \in BOOLEAN :
           next_svc_id < MaxIds
               /\ add_service("test_svc_handler", interval_ms, NULL, repeat)
    \/ Tick
    \/ WorkerLoop
    \/ W_Trigger

SpecStall == Init /\ [][NextStall]_vars

\* C32: in one due pass the callback of each timer runs at most once, and
\* exactly when the timer is due; a repeating timer that fired is due again
\* one interval after the time of the pass, whatever its previous due time
\* was, so after a stall it fires once and then a full interval later; a
\* timer that did not fire keeps its due time.
C32_RepeatingTimerIsRearmedFromThePass ==
    [][(wpc = "svc" /\ wpc' # wpc /\ now # last_service_tick) =>
          \A i \in 1..Len(services) :
              LET s == services[i]
                  due == s.next_run_us > 0 /\ esp_bus_now_us >= s.next_run_us
                  j == find_id(services', s.id)
              IN  /\ Count(NewCalls, LAMBDA c : c.id = s.id) = B2N(due)
                  /\ (due /\ s.repeat) =>
                        /\ j # 0
                        /\ services'[j].next_run_us
                              = esp_bus_now_us + s.interval_ms * 1000
                        /\ services'[j].next_run_us > esp_bus_now_us
                  /\ (due /\ ~s.repeat) => j = 0
                  /\ ~due => j # 0 /\ services'[j] = s]_vars

\* the worker was stalled over a whole interval: a repeating timer of 1 ms
\* has just fired for the first time, one interval after it became due, so
\* that a second firing was already due as well; it ran once and is due
\* again one interval after the pass
C32_Witness ==
    /\ wpc = "idle"
    /\ last_service_tick = now
    /\ \E i \in 1..Len(services) :
           /\ services[i].repeat
           /\ services[i].interval_ms = 1
           /\ services[i].next_run_us = esp_bus_now_us + 1000
           /\ Count(hlog, LAMBDA c : c.id = services[i].id) = 1
           /\ hlog[Len(hlog)].id = services[i].id
           /\ hlog[Len(hlog)].at >= hlog[Len(hlog)].due + 1000

(***************************************************************************)
(* The wait of the worker on its own: a timer list and a time are drawn    *)
(* and esp_bus_calc_next_wait is applied to them.                          *)
(***************************************************************************)
\* a variant of lower_wait that never lowers the wait
lower_wait_never(min_wait, wait) == min_wait

\* if (wait < min_wait) min_wait = wait
lower_wait(min_wait, wait) == IF wait < min_wait THEN wait ELSE min_wait

\* if (wait < 1000) wait = 1000
floor_wait(wait) == IF wait < 1000 THEN 1000 ELSE wait

RECURSIVE min_wait_from(_, _)
\* the loop of esp_bus_calc_next_wait from the timer at position i on: only
\* a timer with next_run_us > 0 counts
min_wait_from(i, min_wait) ==
    IF i > Len(services) THEN min_wait
    ELSE IF services[i].next_run_us > 0
    THEN min_wait_from(i + 1,
             lower_wait(min_wait,
                        floor_wait(services[i].next_run_us - esp_bus_now_us)))
    ELSE min_wait_from(i + 1, min_wait)

\* esp_bus_calc_next_wait: min_wait starts at 100000 us; the result is
\* (uint32_t)(min_wait / 1000), or 1 when that is 0.  min_wait is between
\* 1000 and 100000 after the loop, so the division leaves 1..100 and the
\* conversion to uint32_t keeps the value
esp_bus_calc_next_wait ==
    LET wait_ms == min_wait_from(1, 100000) \div 1000
    IN  IF wait_ms > 0 THEN wait_ms ELSE 1

\* next-due times in microseconds: inactive (0), overdue, due now, due within
\* the millisecond, due in whole and broken milliseconds, due at and past the
\* cap of 100 ms
DueTimes == {0, 500, 1000, 1500, 3700, 6000, 103000, 250000}

TimerLists ==
    UNION {[1..n -> [id : {0}, fn : {"test_svc_handler"}, ctx : {NULL},
                     interval_ms : {1}, next_run_us : DueTimes,
                     repeat : {TRUE}]] : n \in 0..MaxNodes}

InitWait ==
    /\ initialized = TRUE
    /\ strict = FALSE
    /\ on_err = NULL
    /\ task = "worker"
    /\ mutex = [created |-> TRUE, holder |-> NULL]
    /\ modules = <<>>
    /\ subs = <<>>
    /\ routes = <<>>
    /\ services \in TimerLists
    /\ next_sub_id = 0
    /\ next_svc_id = MaxIds
    /\ queue = <<>>
    /\ wpc = "idle"
    /\ wmsg = [type |-> "none"]
    /\ werr = ESP_OK
    /\ last_service_tick = 0
    /\ now \in 1..MaxTime
    /\ cpc = [t \in Threads |-> "idle"]
    /\ frame = [t \in Threads |-> [k |-> 0]]
    /\ ncalls = [t \in Threads |-> 0]
    /\ inv = [t \in Threads |-> [k \in 1..MaxCalls |-> [h |-> <<>>, how |-> "none"]]]
    /\ fin = [t \in Threads |-> [k |-> 0]]
    /\ hlog = <<>>
    /\ nlog = <<>>
    /\ errlog = <<>>
    /\ stale = {}
    /\ last = [op |-> "none"]
    /\ heap = [NoHeap EXCEPT !.node = Len(services)]
    /\ sweep = NoSweep

\* uint32_t wait_ms = esp_bus_calc_next_wait()
calc_next_wait_call ==
    /\ last.op = "none"
    /\ last' = [op |-> "calc_next_wait", ret |-> esp_bus_calc_next_wait]
    /\ UNCHANGED <<busVars, regVars, queue, workerVars, now, clientVars, logVars,
                   memVars>>

NextWait == calc_next_wait_call

SpecWait == InitWait /\ [][NextWait]_vars

\* C33: for every timer list and every time, esp_bus_calc_next_wait lies in
\* 1..100, is 100 when no timer is registered, is 1 when a timer with a
\* positive due time is overdue, and is the least, over the timers with a
\* positive due time, of the whole milliseconds until the timer is due,
\* floored to 1 and capped at 100.
C33_WaitIsFlooredCappedMinimum ==
    last.op = "calc_next_wait" =>
        LET active == {i \in 1..Len(services) : services[i].next_run_us > 0}
            ms(i) == LET d == services[i].next_run_us - now * 1000
                     IN  IF d < 1000 THEN 1 ELSE d \div 1000
            cap(x) == IF x > 100 THEN 100 ELSE x
        IN  /\ last.ret \in 1..100
            /\ services = <<>> => last.ret = 100
            /\ (\E i \in active : services[i].next_run_us <= now * 1000)
                   => last.ret = 1
            /\ \A i \in active : last.ret <= cap(ms(i))
            /\ last.ret = 100 \/ \E i \in active : last.ret = ms(i)

\* the wait was computed for an overdue timer next to one that is due later
C33_Witness ==
    /\ last.op = "calc_next_wait"
    /\ last.ret = 1
    /\ Len(services) = 2
    /\ services[1].next_run_us > now * 1000
    /\ services[2].next_run_us > 0
    /\ services[2].next_run_us < now * 1000

(***************************************************************************)
(* Timer callbacks that edit the timer list: a client task arms timers of  *)
(* 1 ms whose callback only counts, creates a one-shot timer               *)
(* (esp_bus_after, as led_blink_step does) or cancels timer 0              *)
(* (esp_bus_cancel, as led_stop_blink does); nobody else cancels.  The     *)
(* worker runs its due pass step by step.  Timer 0 is the last in the      *)
(* list: cancelled from its own callback it is the entry under the pass,   *)
(* cancelled from the callback of timer 1 it is the entry the pass visits  *)
(* next.                                                                   *)
(***************************************************************************)
TimerEdits == {"after", "cancel"}

NextSelf ==
    \/ ~initialized /\ last.op = "none" /\ esp_bus_init
    \/ \E repeat \in BOOLEAN :
           next_svc_id < MaxIds
               /\ add_service("test_svc_handler", 1, NULL, repeat)
    \/ \E repeat \in BOOLEAN, op \in TimerEdits :
           next_svc_id < MaxIds
               /\ add_service("editing_svc_fn", 1, op, repeat)
    \/ Tick
    \/ W_Receive
    \/ W_Timeout
    \/ W_Drain
    \/ W_Trigger
    \/ S_Begin
    \/ S_Visit
    \/ S_Return
    \/ S_Clean

SpecSelf == Init /\ [][NextSelf]_vars

\* C34: when timer callbacks create and cancel timers inside the due pass,
\* the pass never reads or writes a timer entry that has been removed from
\* the registry and freed.
C34_PassStaysOnRegisteredEntries ==
    /\ stale = {}
    /\ wpc # "fault"

\* a callback that only creates timers leaves the pass on registered
\* entries: the pass reaches a freed entry only after a callback has
\* cancelled a timer during this pass
C34_CreatingTimersIsSafe ==
    [][(stale' # stale \/ (wpc' = "fault" /\ wpc # "fault")) =>
          /\ wpc = "sweep"
          /\ sweep.grave # {}
          /\ \E n \in 1..Len(hlog) :
                 hlog[n].fn = "editing_svc_fn" /\ hlog[n].at >= sweep.now]_vars

\* the callback of a timer has created a timer during the pass
C34_Created ==
    /\ wpc = "sweep"
    /\ sweep.phase = "call"
    /\ find_id(services, sweep.s) # 0
    /\ services[find_id(services, sweep.s)].fn = "editing_svc_fn"
    /\ services[find_id(services, sweep.s)].ctx = "after"
    /\ services[1].next_run_us = esp_bus_now_us + 1000
    /\ services[1].id # sweep.s
    /\ stale = {}

(***************************************************************************)
(* The worker's wait: the head of bus_task's loop computes the wait from   *)
(* the timers registered at that moment and blocks in xQueueReceive with   *)
(* it; the receive returns when an envelope is in the queue, or times out  *)
(* once the wait has passed.  A client task registers and cancels timers   *)
(* and sends wake-ups meanwhile.                                           *)
(***************************************************************************)
\* pdMS_TO_TICKS with the tick of 1 ms of the model's clock
pdMS_TO_TICKS(ms) == (ms * 1000) \div 1000

\* wait_ms = esp_bus_calc_next_wait(); wait_ticks = pdMS_TO_TICKS(wait_ms),
\* at least 1; the worker blocks in xQueueReceive at tick `since`
W_Wait ==
    /\ wpc = "idle"
    /\ wpc' = "recv"
    /\ sweep' = [phase |-> "wait", since |-> now,
                 wait_ticks |-> IF pdMS_TO_TICKS(esp_bus_calc_next_wait) = 0 THEN 1
                                ELSE pdMS_TO_TICKS(esp_bus_calc_next_wait)]
    /\ UNCHANGED <<busVars, regVars, queue, wmsg, werr, last_service_tick, now,
                   clientVars, logVars, last, heap>>

\* the blocked xQueueReceive returns a message
W_Wake ==
    /\ wpc = "recv"
    /\ queue # <<>>
    /\ wmsg' = xQueueReceive(queue).msg
    /\ queue' = xQueueReceive(queue).rest
    /\ wpc' = "proc"
    /\ sweep' = NoSweep
    /\ UNCHANGED <<busVars, regVars, werr, last_service_tick, now, clientVars,
                   logVars, last, heap>>

\* the blocked xQueueReceive times out: wait_ticks have passed
W_Expire ==
    /\ wpc = "recv"
    /\ queue = <<>>
    /\ now >= sweep.since + sweep.wait_ticks
    /\ wpc' = "svc"
    /\ sweep' = NoSweep
    /\ UNCHANGED <<busVars, regVars, queue, wmsg, werr, last_service_tick, now,
                   clientVars, logVars, last, heap>>

NextSleep ==
    \/ ~initialized /\ last.op = "none" /\ esp_bus_init
    \/ \E interval_ms \in Intervals, repeat \in BOOLEAN :
           next_svc_id < MaxIds
               /\ add_service("test_svc_handler", interval_ms, NULL, repeat)
    \/ \E id \in 0..(MaxIds - 1) : esp_bus_cancel(id)
    \/ initialized /\ esp_bus_trigger
    \/ Tick
    \/ W_Wait
    \/ W_Wake
    \/ W_Expire
    \/ W_Trigger
    \/ W_Drain
    \/ W_Services

SpecSleep == Init /\ [][NextSleep]_vars

\* the worker is blocked in xQueueReceive and nothing is in the queue
Asleep == wpc = "recv" /\ queue = <<>>

\* C35: a registration of a timer that succeeds leaves a wake-only envelope
\* in the queue, or found the queue full, so the queue is not empty when it
\* returns; and whenever the worker sleeps on an empty queue, its wait ends
\* no later than the due time of every registered timer (or one tick after
\* the wait began, the least wait there is): it never sleeps on a wait that
\* leaves out a registered timer.
C35_RegistrationWakesTheWorker ==
    [][/\ (last' # last /\ last'.op = "add_service" /\ last'.id >= 0) =>
             /\ \/ queue' = Append(queue, [type |-> "MSG_TRIGGER"])
                \/ Len(queue) = BUS_QUEUE_SIZE /\ queue' = queue
             /\ ~Asleep'
       /\ Asleep' =>
             \A i \in 1..Len(services') :
                 services'[i].next_run_us > 0 =>
                     \/ (sweep'.since + sweep'.wait_ticks) * 1000
                            <= services'[i].next_run_us
                     \/ sweep'.wait_ticks = 1]_vars

\* a timer has been registered while the worker was blocked on the wait of
\* 100 ms that it computed when no timer existed; the wake-up is queued
C35_Witness ==
    /\ wpc = "recv"
    /\ sweep.wait_ticks = 100
    /\ last.op = "add_service"
    /\ last.id >= 0
    /\ find_id(services, last.id) # 0
    /\ queue = <<[type |-> "MSG_TRIGGER"]>>
    /\ services[find_id(services, last.id)].next_run_us
          < (sweep.since + sweep.wait_ticks) * 1000

\* a timer has been registered on a full queue
C35_FullQueue ==
    /\ last.op = "add_service"
    /\ last.id = 1
    /\ find_id(services, 1) # 0
    /\ queue = <<[type |-> "MSG_TRIGGER"], [type |-> "MSG_TRIGGER"]>>
    /\ next_svc_id = 2
    /\ wpc = "recv"
    /\ sweep.wait_ticks = 1

(***************************************************************************)
(* Allocation failures of the payload copy: a client task adds a route     *)
(* with the payload "hi", task t1 calls esp_bus_req with the payload "hi"  *)
(* and task t2 emits with the payload "hi"; each malloc of a payload copy  *)
(* may fail.                                                               *)
(***************************************************************************)
NextMem ==
    \/ ~initialized /\ last.op = "none" /\ esp_bus_init
    \/ last.op = "init" /\ esp_bus_reg(m_test)
    \/ \E can_copy \in BOOLEAN :
           last.op = "reg" /\ esp_bus_on(p_x_evt, p_m_echo, d_hi, can_copy)
    \/ \E c \in {c_echo, c_echo0}, can_copy \in BOOLEAN :
           last.op = "on" /\ R_Call("t1", c, can_copy, TRUE)
    \/ \E can_copy \in BOOLEAN :
           last.op = "on" /\ esp_bus_emit("t2", s_x1, s_evt, d_hi, can_copy)
    \/ R_SendOk("t1")
    \/ R_SendTimeout("t1")
    \/ R_Take("t1")
    \/ R_TakeTimeout("t1")
    \/ R_Return("t1")
    \/ Worker
    \/ W_Event

SpecMem == Init /\ [][NextMem]_vars

\* esp_bus_emit and esp_bus_req called with the payload "hi" either put an
\* envelope that carries a copy of the payload in the queue (or, for
\* esp_bus_req, wait for room with the copy made), or fail and leave the
\* queue and the heap as they were; with room in the queue the failure is
\* no-memory
EmitAndReqAbortCleanly ==
    /\ ncalls'["t2"] # ncalls["t2"] =>
          IF fin'["t2"].ret = ESP_OK
          THEN /\ Len(queue') = Len(queue) + 1
               /\ queue'[Len(queue')].type = "MSG_EVT"
               /\ queue'[Len(queue')].data = d_hi
               /\ heap'.payload = heap.payload + 1
          ELSE /\ queue' = queue
               /\ heap' = heap
               /\ fin'["t2"].ret \in {ESP_ERR_NO_MEM, ESP_ERR_TIMEOUT}
               /\ Len(queue) < BUS_QUEUE_SIZE => fin'["t2"].ret = ESP_ERR_NO_MEM
    /\ ncalls'["t1"] # ncalls["t1"] =>
          IF cpc'["t1"] = "idle"
          THEN /\ queue' = queue
               /\ heap' = heap
               /\ fin'["t1"].ret \in {ESP_ERR_NO_MEM, ESP_ERR_TIMEOUT}
               /\ Len(queue) < BUS_QUEUE_SIZE => fin'["t1"].ret = ESP_ERR_NO_MEM
          ELSE /\ heap'.payload = heap.payload + 1
               /\ IF Len(queue) < BUS_QUEUE_SIZE
                  THEN /\ Len(queue') = Len(queue) + 1
                       /\ queue'[Len(queue')].type = "MSG_REQ"
                       /\ queue'[Len(queue')].data = d_hi
                  ELSE queue' = queue /\ cpc'["t1"] = "sendwait"

\* C36: when the payload copy cannot be allocated the operation is aborted
\* and leaves nothing behind: esp_bus_on called with the payload "hi" either
\* adds a route that carries the payload, or fails with no-memory and adds
\* no route, so that every registered route carries its payload; and
\* esp_bus_emit and esp_bus_req fail with no-memory and enqueue nothing.
C36_FailedCopyAbortsTheOperation ==
    [][/\ (last' # last /\ last'.op = "on") =>
             IF last'.ret = ESP_OK
             THEN /\ Len(routes') = Len(routes) + 1
                  /\ routes'[1].req_data = d_hi
             ELSE routes' = routes /\ last'.ret = ESP_ERR_NO_MEM
       /\ \A i \in 1..Len(routes') : routes'[i].req_data = d_hi
       /\ EmitAndReqAbortCleanly]_vars

\* the part of the claim about esp_bus_emit and esp_bus_req
C36_EmitAndReqAbortCleanly == [][EmitAndReqAbortCleanly]_vars

\* esp_bus_emit and esp_bus_req have both failed with no-memory on a queue
\* with room
C36_Aborted ==
    /\ "ret" \in DOMAIN fin["t1"]
    /\ fin["t1"].ret = ESP_ERR_NO_MEM
    /\ "ret" \in DOMAIN fin["t2"]
    /\ fin["t2"].ret = ESP_ERR_NO_MEM
    /\ queue = <<>>
    /\ heap.payload = B2N(routes[1].req_data.ptr)

(***************************************************************************)
(* esp_bus_process_request step by step.  The worker looks the module up   *)
(* without the mutex and keeps the pointer mod; a client task can          *)
(* unregister the module before the worker reads mod->on_req and calls it: *)
(* the worker then reads a freed node, and finds its old contents or       *)
(* faults.                                                                 *)
(***************************************************************************)
\* process_message, MSG_REQ, up to mod = esp_bus_find_module(module_name),
\* for a pattern that parses with '.' as the separator
Q_Find ==
    /\ wpc = "proc"
    /\ wmsg.type = "MSG_REQ"
    /\ esp_bus_parse_pattern(wmsg.pattern).ok
    /\ esp_bus_parse_pattern(wmsg.pattern).sep = "."
    /\ LET i == esp_bus_find_module(modules, esp_bus_parse_pattern(wmsg.pattern).module)
       IN  sweep' = [phase |-> "req", found |-> i # 0,
                     mod |-> IF i # 0 THEN modules[i] ELSE [name |-> <<>>]]
    /\ wpc' = "find"
    /\ UNCHANGED <<busVars, regVars, queue, wmsg, werr, last_service_tick, now,
                   clientVars, logVars, last, heap>>

\* if (!mod) and the read of mod->on_req through the pointer found before:
\* the node is still registered, or freed by esp_bus_unreg meanwhile
Q_Read ==
    /\ wpc = "find"
    /\ \E intact \in BOOLEAN :
           LET live == \E i \in 1..Len(modules) : modules[i] = sweep.mod
           IN  /\ (~sweep.found \/ live) => intact
               /\ stale' = IF sweep.found /\ ~live
                           THEN stale \cup {[kind |-> "module_node", how |-> "freed"]}
                           ELSE stale
               /\ wpc' = IF intact THEN "call" ELSE "fault"
    /\ UNCHANGED <<busVars, regVars, queue, wmsg, werr, last_service_tick, now,
                   clientVars, hlog, nlog, errlog, last, memVars>>

\* the rest of esp_bus_process_request with the node as it was read: the
\* error report, or the call mod->on_req(action, ..., mod->ctx); then the
\* response is stored as in W_Request
Q_Invoke ==
    /\ wpc = "call"
    /\ LET seen == IF sweep.found THEN <<sweep.mod>> ELSE <<>>
           r == esp_bus_process_request([World EXCEPT !.modules = seen], task,
                                        wmsg.pattern, wmsg.data, wmsg.res)
           t == wmsg.from[1]
           k == wmsg.from[2]
       IN  /\ SetWorld([r.w EXCEPT
                           !.modules = modules,
                           !.heap.payload =
                               @ - B2N(~wmsg.result /\ ~wmsg.done /\ wmsg.data.ptr)])
           /\ werr' = r.err
           /\ inv' = IF t \in Threads /\ Len(r.w.hlog) > Len(hlog)
                     THEN [inv EXCEPT ![t][k].h = Append(@, r.w.hlog[Len(r.w.hlog)])]
                     ELSE inv
           /\ IF r.out.wrote
              THEN \E alias \in BOOLEAN :
                       WriteCaller(wmsg.from, "res_buf", alias, r.out)
              ELSE UNCHANGED <<frame, stale>>
    /\ wpc' = IF wmsg.result THEN "result" ELSE IF wmsg.done THEN "give" ELSE "drain"
    /\ sweep' = NoSweep
    /\ UNCHANGED <<busVars, wmsg, last_service_tick, now, cpc, ncalls, fin, last>>

NextGone ==
    \/ ~initialized /\ last.op = "none" /\ esp_bus_init
    \/ last.op = "init" /\ esp_bus_reg(m_test)
    \/ \E enable \in BOOLEAN : last.op = "reg" /\ esp_bus_strict(enable)
    \/ \E c \in {c_echo, c_fail} :
           last.op \in {"strict", "unreg"} /\ R_Call("t1", c, TRUE, TRUE)
    \/ last.op = "strict" /\ esp_bus_unreg(s_m)
    \/ R_Take("t1")
    \/ R_TakeTimeout("t1")
    \/ R_Return("t1")
    \/ WorkerLoop
    \/ Q_Find
    \/ Q_Read
    \/ Q_Invoke
    \/ W_Result
    \/ W_Give

SpecGone == Init /\ [][NextGone]_vars

\* esp_bus_unreg("m") has returned ESP_OK to the client task
Gone == last.op = "unreg" /\ last.ret = ESP_OK

\* the worker has read the registry entry of a module after it was freed
FreedModuleRead == [kind |-> "module_node", how |-> "freed"] \in stale

\* C37: once esp_bus_unreg("m") has returned to the client task, the worker
\* never calls the request handler of module m and never reads the freed
\* registry entry of m, wherever it was in the resolution of a request to m.
C37_UnregisteredModuleIsNotTouched ==
    [][Gone => /\ hlog' = hlog
               /\ ~FreedModuleRead'
               /\ ~(wpc' = "fault" /\ wpc # "fault")]_vars

\* the worker touches or calls the unregistered module only through a
\* pointer it had found before esp_bus_unreg removed the module: a request
\* whose lookup starts after esp_bus_unreg has returned finds no module
C37_LookupAfterUnregFindsNothing ==
    [][/\ (Gone /\ (hlog' # hlog \/ (FreedModuleRead' /\ ~FreedModuleRead)
                     \/ (wpc' = "fault" /\ wpc # "fault")))
             => wpc \in {"find", "call"} /\ sweep.found
       /\ (Gone /\ wpc' = "find" /\ wpc # "find") => ~sweep'.found]_vars

\* a request to m has been resolved after esp_bus_unreg: no handler ran
C37_Resolved ==
    /\ Gone
    /\ "ret" \in DOMAIN fin["t1"]
    /\ fin["t1"].how \notin {"no_mem", "send_expired", "invalid_arg"}
    /\ hlog = <<>>
    /\ ~FreedModuleRead

(***************************************************************************)
(* A subscriber that removes a subscription from inside its callback: a    *)
(* client task adds two subscriptions to "x1:*", each either the counting  *)
(* handler or a handler that calls esp_bus_unsub(1), and emits "x1:evt";   *)
(* no other task unsubscribes.  The worker dispatches step by step.        *)
(* Subscription 1 is the first in the list: removed from its own callback  *)
(* it is the entry under the loop; removed from the callback of            *)
(* subscription 0 it is an entry the loop has left behind.                 *)
(***************************************************************************)
NextOwn ==
    \/ ~initialized /\ last.op = "none" /\ esp_bus_init
    \/ next_sub_id < MaxIds /\ esp_bus_sub(p_x1_any, "test_evt_handler", NULL)
    \/ next_sub_id < MaxIds /\ esp_bus_sub(p_x1_any, "editing_evt_handler", "unsub")
    \/ esp_bus_emit("t1", s_x1, s_evt, NoData, TRUE)
    \/ W_Receive
    \/ W_Timeout
    \/ W_Drain
    \/ W_Services
    \/ E_Begin
    \/ E_Visit
    \/ E_Return

SpecOwn == Init /\ [][NextOwn]_vars

\* C38: when a subscriber callback removes its own subscription while the
\* event is dispatched, the dispatcher does not read the removed entry
\* again, and every subscription that matches and is still registered gets
\* the event: the dispatch of an event ends with one call for each of them.
C38_SelfRemovalIsSafe ==
    /\ [kind |-> "sub_node", how |-> "freed"] \notin stale
    /\ wpc # "fault"

\* the dispatcher reads a freed entry only when the callback it has just
\* called removed its own subscription; removing an entry that the loop has
\* already left is safe
C38_OnlySelfRemovalDangles ==
    [][(stale' # stale \/ (wpc' = "fault" /\ wpc # "fault")) =>
          /\ wpc = "disp"
          /\ sweep.phase = "evt_call"
          /\ find_id(subs, sweep.s) = 0
          /\ hlog[Len(hlog)].fn = "editing_evt_handler"
          /\ hlog[Len(hlog)].id = sweep.s]_vars

\* subscription 0 has removed subscription 1, which the loop had visited
\* before, and the dispatch has ended
C38_RemovedAnother ==
    /\ wpc = "drain"
    /\ Len(hlog) = 2
    /\ hlog[1].fn = "test_evt_handler"
    /\ hlog[1].id = 1
    /\ hlog[2].fn = "editing_evt_handler"
    /\ hlog[2].id = 0
    /\ find_id(subs, 1) = 0
    /\ stale = {}

(***************************************************************************)
(* Modules with an event handler: module m, the target of a route, and     *)
(* optionally module x1, the source of the events, are registered with or  *)
(* without on_evt; a subscription and a route to "m.echo" are added and    *)
(* events of x1 and y1 are emitted.                                        *)
(***************************************************************************)
\* module name with the request handler req_fn and the event handler evt_fn
m_evt(name, req_fn, evt_fn) ==
    [name |-> name, on_req |-> req_fn, on_evt |-> evt_fn, ctx |-> NoData]

NextSrc ==
    \/ ~initialized /\ last.op = "none" /\ esp_bus_init
    \/ \E evt_fn \in {NULL, "test_on_evt"} :
           last.op = "init" /\ esp_bus_reg(m_evt(s_m, "test_req_handler", evt_fn))
    \/ \E evt_fn \in {NULL, "test_on_evt"} :
           last.op = "reg" /\ Len(modules) = 1
               /\ esp_bus_reg(m_evt(s_x1, NULL, evt_fn))
    \/ last.op = "reg" /\ esp_bus_sub(p_x1_any, "test_evt_handler", NULL)
    \/ last.op = "sub" /\ esp_bus_on(p_x_evt, p_m_echo, d_hi, TRUE)
    \/ \E src \in {s_x1, s_y1} :
           last.op = "on" /\ esp_bus_emit("t1", src, s_evt, NoData, TRUE)
    \/ WorkerLoop
    \/ W_Event

SpecSrc == Init /\ [][NextSrc]_vars

\* C39: the dispatch of an event calls subscription callbacks and route
\* targets only: no call is made to the on_evt handler of a registered
\* module, whether or not the event's source is a registered module.
C39_DispatchNeverCallsOnEvt ==
    [][\A n \in 1..Len(NewCalls) :
          /\ NewCalls[n].fn \in {"test_evt_handler", "test_req_handler"}
          /\ \A i \in 1..Len(modules) : NewCalls[n].fn # modules[i].on_evt]_vars

\* an event of x1 has been dispatched to the subscription and the route
\* while module x1 was registered with an on_evt handler
C39_Witness ==
    /\ wpc = "drain"
    /\ wmsg.type = "MSG_EVT"
    /\ wmsg.pattern = event_key(s_x1, s_evt)
    /\ esp_bus_find_module(modules, s_x1) # 0
    /\ modules[esp_bus_find_module(modules, s_x1)].on_evt = "test_on_evt"
    /\ modules[esp_bus_find_module(modules, s_m)].on_evt = "test_on_evt"
    /\ Len(hlog) = 2
    /\ hlog[1].fn = "test_evt_handler"
    /\ hlog[2].fn = "test_req_handler"

(***************************************************************************)
(* Timers under fair scheduling.  A client task arms one-shot timers of 0  *)
(* and 1 ms and repeating timers of 1 ms and emits one event; nothing is   *)
(* cancelled.  The worker runs bus_task's                                  *)
(* loop with its wait.  The worker task is blocked only in xQueueReceive,  *)
(* from which the kernel resumes it when an envelope arrives or the wait   *)
(* has passed, and its callbacks return, so a worker step that can be      *)
(* taken is taken; the tick interrupt makes time pass.                     *)
(***************************************************************************)
WorkerCycle ==
    \/ W_Wait
    \/ W_Wake
    \/ W_Expire
    \/ W_Trigger
    \/ W_Event
    \/ W_Drain
    \/ W_Services

\* timer id is registered and its due time has come
Overdue(id) ==
    /\ find_id(services, id) # 0
    /\ services[find_id(services, id)].next_run_us > 0
    /\ services[find_id(services, id)].next_run_us <= esp_bus_now_us

\* time passes; past MaxTime it does so only while the worker sleeps on a
\* wait that has not ended and a timer is due, so that the clock stops only
\* when nothing waits for it: each timer armed late takes one such tick
TickOn ==
    /\ \/ now < MaxTime
       \/ /\ now <= MaxTime + MaxIds
          /\ Asleep
          /\ now < sweep.since + sweep.wait_ticks
          /\ \E id \in 0..(MaxIds - 1) : Overdue(id)
    /\ now' = now + 1
    /\ UNCHANGED <<busVars, regVars, queue, workerVars, clientVars, logVars, last,
                   memVars>>

NextFire ==
    \/ ~initialized /\ last.op = "none" /\ esp_bus_init
    \/ \E delay_ms \in {0, 1} :
           next_svc_id < MaxIds /\ esp_bus_after("test_svc_handler", delay_ms, NULL)
    \/ next_svc_id < MaxIds /\ esp_bus_every("test_svc_handler", 1, NULL)
    \/ ncalls["t1"] = 0 /\ esp_bus_emit("t1", s_x1, s_evt, NoData, TRUE)
    \/ TickOn
    \/ WorkerCycle

SpecFire ==
    /\ Init
    /\ [][NextFire]_vars
    /\ WF_vars(WorkerCycle)
    /\ WF_vars(TickOn)

\* C40: with a fair worker, callbacks that return and finitely many
\* envelopes, a registered timer whose due time has come is fired: it does
\* not stay due forever, whatever the queue holds and whether or not the due
\* pass has already run in this tick.
C40_DueTimerIsFired ==
    \A id \in 0..(MaxIds - 1) : Overdue(id) ~> ~Overdue(id)

\* a timer leaves the state of being due only by being fired
C40_OnlyFiringEndsDue ==
    [][\A id \in 0..(MaxIds - 1) :
          (Overdue(id) /\ ~Overdue(id)') =>
              \E n \in 1..Len(NewCalls) :
                  NewCalls[n].fn = "test_svc_handler" /\ NewCalls[n].id = id]_vars

\* a one-shot timer has been fired in a pass later than its due time, and a
\* repeating timer has fired twice
C40_Witness ==
    /\ \E n \in 1..Len(hlog) :
           /\ ~hlog[n].repeat
           /\ hlog[n].at > hlog[n].due
    /\ \E n, k \in 1..Len(hlog) :
           n < k /\ hlog[n].repeat /\ hlog[k].repeat /\ hlog[n].id = hlog[k].id
====
